---- MODULE Spec2Model ----
(***************************************************************************)
(* A state-machine model of the queue-pair manager of                      *)
(* src/src/core/dev/qp_mgr.cpp (classes qp_mgr and qp_mgr_eth):            *)
(* configure, up, down, the receive batch, the send path and the drains.   *)
(*                                                                         *)
(* The manager is driven by one owning thread, so at most one operation    *)
(* is in progress: op names it and pc is its position.  An operation that  *)
(* spans several hardware or collaborator calls is a forced sequence of    *)
(* steps (one action per step, each enabled only at its pc); the short     *)
(* dataplane calls are single actions.                                     *)
(*                                                                         *)
(* Hardware verbs, the completion-queue collaborator, the ring and the     *)
(* device handler are outside the file: every call into them is a          *)
(* nondeterministic choice over the results the code distinguishes.        *)
(***************************************************************************)
EXTENDS Integers, Sequences, FiniteSets, TLC

(***************************************************************************)
(* Bounds of the model.                                                    *)
(***************************************************************************)
\* largest receive batch capacity (m_n_sysvar_rx_num_wr_to_post_recv) tried
MaxBatch == 2
\* largest unsignaled-send threshold (m_n_sysvar_tx_num_wr_to_signal) tried
MaxSignalThresh == 2
\* number of receive buffer descriptors that exist
NumBufs == 3
\* number of send() calls followed by the history variables
MaxSends == 3
\* number of drain passes one release call is followed for
MaxPasses == 2
\* longest queue handed to post_recv_buffers
MaxQueue == 2
\* largest receive batch capacity tried where the teardown alone is followed
MaxTeardownBatch == 3

(***************************************************************************)
(* Program constants.                                                      *)
(***************************************************************************)
MAX_UPSTREAM_CQ_MSHV_SIZE == 8192
\* ALIGN_WR_DOWN: the floor of the work-request count and its alignment
ALIGN_WR_MIN == 32
ALIGN_WR_MASK == 16
\* the hardware descriptor-buffer budget of configure: 32678 units of 64 bytes
WQEBB_BUDGET == 32678
WQEBB_SIZE == 64
\* fixed part of max_wqe_sz: 16 + 14 (ctrl + eth), 16 per SGE, 4, and 94 without TSO
WQE_FIXED_SZ == 30
WQE_SGE_SZ == 16
WQE_INLINE_HDR_SZ == 4
WQE_NO_TSO_HDR_SZ == 94
\* MCE_DEFAULT_TX_NUM_SGE and MCE_DEFAULT_RX_NUM_SGE, used by the constructor
MCE_DEFAULT_TX_NUM_SGE == 4
MCE_DEFAULT_RX_NUM_SGE == 1

\* a null pointer or a zero identifier, and an uninitialised array field
NULL == -1
UNINIT == -2

VARIABLES
    \* ---- environment: device, system variables, process-wide flags
    env,                                \* device attributes and system variables read by the file
    m_n_sysvar_rx_num_wr_to_post_recv,  \* receive batch capacity
    m_n_sysvar_tx_num_wr_to_signal,     \* unsignaled-send threshold
    removed,                            \* m_p_ib_ctx_handler->is_removed()
    g_b_exit,                           \* process-wide shutdown flag
    errno_eio,                          \* errno == EIO
    \* ---- members set by configure
    m_max_qp_wr,
    m_rx_num_wr,
    m_tx_num_wr,
    m_qp_cap,
    qp_init_attr_cap,                   \* qp_init_attr.cap as handed to the QP creation
    req_cap,                            \* m_qp_cap as it stood when the QP was requested
    cfg_trace,                          \* the steps configure has executed
    cq_attempts,                        \* sizes of the completion-queue creation attempts
    cfg_result,                         \* "none", "ok" or "fail"
    \* ---- hardware handles and collaborators
    m_qp,                               \* TRUE when the QP handle is present
    qp_state,                           \* "NONE", "RESET", "INIT", "RTS", "ERR"
    m_p_cq_mgr_tx,                      \* TRUE when the Tx collaborator is present
    m_p_cq_mgr_rx,                      \* TRUE when the Rx collaborator is present
    tx_registered,                      \* add_qp_tx done and not undone
    rx_registered,                      \* add_qp_rx done and not undone
    \* ---- receive batch
    m_curr_rx_wr,
    m_last_posted_rx_wr_id,
    m_ibv_rx_wr_array,                  \* slot -> [wr_id, next, num_sge]
    buf_loc,                            \* descriptor -> "free", "batch", "hw"
    rq,                                 \* the hardware receive queue: descriptors posted, oldest first
    rx_posted,                          \* descriptors passed to post_recv_buffer since the batch was empty
    hw_posts,                           \* chains handed to ibv_post_recv since then
    \* ---- send path
    m_n_unsignaled_count,
    last_send,                          \* the most recent send submitted or refused
    n_sends,                            \* send() calls that submitted, capped
    since_signal,                       \* submitted sends since the last one submitted with a signal
    dummy_posts,                        \* dummy sends submitted by the running or last down()
    dummy_path,                         \* the dummy-completion branch was entered by that down()
    dummy_qp_state,                     \* QP state when the dummy send was submitted
    \* ---- control
    op,                                 \* operation in progress: "idle", "configure", "up", "down"
    pc,                                 \* position in it
    trace,                              \* steps of the running or last up()/down()
    rx_passes,                          \* drain passes of the running or last release_rx_buffers
    tx_passes,                          \* polls of the running or last release_tx_buffers
    last_polled_rx_wr_id,               \* the local of release_rx_buffers
    ready_pre_state,                    \* QP state the last modify_qp_to_ready_state queried
    absent_use,                         \* absent resources the running or last operation used
    rx_check,                           \* the latest loop check of release_rx_buffers: what it read, what it did
    tx_check,                           \* the latest loop check of release_tx_buffers
    rx_returned,                        \* what release_rx_buffers just handed back, in order
    lock,                               \* the completion-queue manager's lock: "free" or its holder
    thr,                                \* the two callers of the receive posting: position, arguments
    p_buffers,                          \* the queue handed to the running post_recv_buffers
    pops,                               \* that call: the queue and count at entry, what it popped
    \* ---- rate limit
    m_rate_limit,                       \* the stored rate-limit configuration
    rl_call                             \* the last rate-limit call: arguments, result, configuration before

envVars == <<env, m_n_sysvar_rx_num_wr_to_post_recv, m_n_sysvar_tx_num_wr_to_signal,
             removed, g_b_exit, errno_eio>>
cfgVars == <<m_max_qp_wr, m_rx_num_wr, m_tx_num_wr, m_qp_cap, qp_init_attr_cap, req_cap,
             cfg_trace, cq_attempts, cfg_result>>
hwVars == <<m_qp, qp_state, m_p_cq_mgr_tx, m_p_cq_mgr_rx, tx_registered, rx_registered>>
rxVars == <<m_curr_rx_wr, m_last_posted_rx_wr_id, m_ibv_rx_wr_array, buf_loc, rq, rx_posted,
            hw_posts>>
txVars == <<m_n_unsignaled_count, last_send, n_sends, since_signal, dummy_posts, dummy_path,
            dummy_qp_state>>
drainVars == <<rx_passes, tx_passes, last_polled_rx_wr_id>>
ctlVars == <<op, pc, trace, ready_pre_state, absent_use>>
rlVars == <<m_rate_limit, rl_call>>
checkVars == <<rx_check, tx_check, rx_returned>>
lockVars == <<lock, thr, p_buffers, pops>>
vars == <<envVars, cfgVars, hwVars, rxVars, txVars, drainVars, ctlVars, rlVars, checkVars,
          lockVars>>

Min(a, b) == IF a <= b THEN a ELSE b
Max(a, b) == IF a >= b THEN a ELSE b

(***************************************************************************)
(* Construction.                                                           *)
(***************************************************************************)
NoCap ==
    [max_send_wr |-> 0, max_recv_wr |-> 0, max_send_sge |-> 0, max_recv_sge |-> 0,
     max_inline_data |-> 0]

CapFields == {"max_send_wr", "max_recv_wr", "max_send_sge", "max_recv_sge", "max_inline_data"}

\* m_qp_cap as the constructor leaves it
CtorCap(e) ==
    [max_send_wr |-> 0,
     max_recv_wr |-> 0,
     max_send_sge |-> IF e.is_tso THEN e.dev_max_sge ELSE MCE_DEFAULT_TX_NUM_SGE,
     max_recv_sge |-> IF e.is_socketxtreme THEN 1 ELSE MCE_DEFAULT_RX_NUM_SGE,
     max_inline_data |-> e.tx_max_inline]

\* last_send before any send: kind is "none", then "send" (a send() call) or "dummy"
\* (the closing send of down())
\* flags_in and flags_out are the send flags of the request on entry to send_to_wire and
\* on return from it
NoSend ==
    [kind |-> "none", zcopy |-> FALSE, flags_in |-> {}, request_comp |-> FALSE,
     signaled |-> FALSE, flags_out |-> {}, post_ok |-> TRUE, polled |-> FALSE,
     poll_ok |-> TRUE, ret |-> 0]

Bufs == 1..NumBufs

\* a rate-limit configuration
RateLimit(rate, burst, pkt) == [rate |-> rate, max_burst_sz |-> burst, typical_pkt_sz |-> pkt]

\* rl_call before any rate-limit call
NoRlCall ==
    [fn |-> "none", rate_limit |-> RateLimit(0, 0, 0), rl_changes |-> {}, hw_ret |-> 0,
     ret |-> 0, before |-> RateLimit(0, 0, 0)]

\* the state after qp_mgr::qp_mgr, for environment e, batch capacity b and threshold n
\* no loop check of release_rx_buffers has been made by the running step
NoRxCheck ==
    [kind |-> "none", cq |-> FALSE, id_differs |-> FALSE, eio |-> FALSE, removed |-> FALSE,
     rq_empty |-> FALSE, g_b_exit |-> FALSE]

\* no loop check of release_tx_buffers has been made by the running step
NoTxCheck == [kind |-> "none", ret_positive |-> FALSE, eio |-> FALSE, removed |-> FALSE]

\* the callers of the receive posting: the thread that owns the ring, and the
\* completion-queue manager
Threads == {"owner", "cq"}

\* a caller that is in no call
NoCall == [pc |-> "out", d |-> 0, count |-> 0]

\* no post_recv_buffers call was made
NoPops == [queue |-> <<>>, count |-> 0, popped |-> <<>>]

InitWith(e, b, n) ==
    /\ env = e
    /\ m_n_sysvar_rx_num_wr_to_post_recv = b
    /\ m_n_sysvar_tx_num_wr_to_signal = n
    /\ removed = FALSE
    /\ g_b_exit = FALSE
    /\ errno_eio = FALSE
    /\ m_max_qp_wr = 0
    /\ m_rx_num_wr = e.rx_num_wr
    /\ m_tx_num_wr = e.tx_num_wr
    /\ m_qp_cap = CtorCap(e)
    /\ qp_init_attr_cap = NoCap
    /\ req_cap = NoCap
    /\ cfg_trace = <<>>
    /\ cq_attempts = [tx |-> <<>>, rx |-> <<>>]
    /\ cfg_result = "none"
    /\ m_qp = FALSE
    /\ qp_state = "NONE"
    /\ m_p_cq_mgr_tx = FALSE
    /\ m_p_cq_mgr_rx = FALSE
    /\ tx_registered = FALSE
    /\ rx_registered = FALSE
    /\ m_curr_rx_wr = 0
    /\ m_last_posted_rx_wr_id = 0
    /\ m_ibv_rx_wr_array = [i \in 0..(b - 1) |-> [wr_id |-> 0, next |-> UNINIT, num_sge |-> UNINIT]]
    /\ buf_loc = [d \in Bufs |-> "free"]
    /\ rq = <<>>
    /\ rx_posted = <<>>
    /\ hw_posts = <<>>
    /\ m_n_unsignaled_count = 0
    /\ last_send = NoSend
    /\ n_sends = 0
    /\ since_signal = 0
    /\ dummy_posts = 0
    /\ dummy_path = FALSE
    /\ dummy_qp_state = "NONE"
    /\ op = "idle"
    /\ pc = "idle"
    /\ trace = <<>>
    /\ rx_passes = 0
    /\ tx_passes = 0
    /\ last_polled_rx_wr_id = 0
    /\ rx_check = NoRxCheck
    /\ tx_check = NoTxCheck
    /\ rx_returned = <<>>
    /\ lock = "free"
    /\ thr = [t \in Threads |-> NoCall]
    /\ p_buffers = <<>>
    /\ pops = NoPops
    /\ ready_pre_state = "NONE"
    /\ absent_use = {}
    /\ m_rate_limit = RateLimit(0, 0, 0)
    /\ rl_call = NoRlCall

(***************************************************************************)
(* configure                                                               *)
(***************************************************************************)
\* faulty variant: the count is aligned up (the ALIGN_WR_UP of line 57)
ALIGN_WR_UP(num_wr) == Max(ALIGN_WR_MIN, (num_wr + 15) - ((num_wr + 15) % ALIGN_WR_MASK))

\* ALIGN_WR_DOWN(_num_wr_): max(32, _num_wr_ & ~0xf)
ALIGN_WR_DOWN(num_wr) == Max(ALIGN_WR_MIN, num_wr - (num_wr % ALIGN_WR_MASK))

\* errno after a failed verbs or collaborator call: EIO or another code
ErrnoAfterFailure == BOOLEAN

\* faulty variant: the retry at the reduced size is made on any hypervisor
HandleCqInit_AnyHypervisor(num_wr) ==
    LET retry == env.is_mlx4 /\ num_wr > MAX_UPSTREAM_CQ_MSHV_SIZE
    IN  {[cq |-> TRUE, num_wr |-> num_wr, sizes |-> <<num_wr>>]}
        \cup
        (IF retry
         THEN {[cq |-> ok, num_wr |-> MAX_UPSTREAM_CQ_MSHV_SIZE,
                sizes |-> <<num_wr, MAX_UPSTREAM_CQ_MSHV_SIZE>>] : ok \in BOOLEAN}
         ELSE {[cq |-> FALSE, num_wr |-> num_wr, sizes |-> <<num_wr>>]})

\* handle_cq_initialization(&num_wr, ...): the outcomes of the creation attempts.
\* cq: a queue was returned; num_wr: *num_wr on return; sizes: the size of each attempt.
HandleCqInit(num_wr) ==
    LET retry == env.hyper_mshv /\ env.is_mlx4 /\ num_wr > MAX_UPSTREAM_CQ_MSHV_SIZE
    IN  {[cq |-> TRUE, num_wr |-> num_wr, sizes |-> <<num_wr>>]}
        \cup
        (IF retry
         THEN {[cq |-> ok, num_wr |-> MAX_UPSTREAM_CQ_MSHV_SIZE,
                sizes |-> <<num_wr, MAX_UPSTREAM_CQ_MSHV_SIZE>>] : ok \in BOOLEAN}
         ELSE {[cq |-> FALSE, num_wr |-> num_wr, sizes |-> <<num_wr>>]})

\* faulty variant: a failed step is not reported, configure returns 0
ConfigureFail_ReturnsOk ==
    /\ cfg_result' = "ok"
    /\ op' = "idle"
    /\ pc' = "idle"

\* configure returns -1
ConfigureFail ==
    /\ cfg_result' = "fail"
    /\ op' = "idle"
    /\ pc' = "idle"

\* lines 181-188: the device limit and the clamp of the Rx work-request count
Configure_Clamp ==
    /\ op = "idle"
    /\ cfg_result = "none"
    /\ m_max_qp_wr' = ALIGN_WR_DOWN(env.dev_max_qp_wr - 1)
    /\ m_rx_num_wr' = IF m_rx_num_wr > m_max_qp_wr' THEN m_max_qp_wr' ELSE m_rx_num_wr
    /\ cfg_trace' = <<"clamp">>
    /\ op' = "configure"
    /\ pc' = "cfg_tx_cq"
    /\ UNCHANGED <<m_tx_num_wr, m_qp_cap, qp_init_attr_cap, req_cap, cq_attempts, cfg_result>>
    /\ UNCHANGED <<lockVars, rlVars, envVars, hwVars, rxVars, txVars, drainVars, checkVars, trace, ready_pre_state, absent_use>>

\* lines 193-198: init_tx_cq_mgr
Configure_TxCq ==
    /\ op = "configure"
    /\ pc = "cfg_tx_cq"
    /\ \E r \in HandleCqInit(m_tx_num_wr) :
        /\ m_tx_num_wr' = r.num_wr
        /\ cq_attempts' = [cq_attempts EXCEPT !.tx = r.sizes]
        /\ m_p_cq_mgr_tx' = r.cq
        /\ cfg_trace' = Append(cfg_trace, "tx_cq")
        /\ IF r.cq
           THEN /\ pc' = "cfg_rx_cq"
                /\ UNCHANGED <<op, cfg_result, errno_eio>>
           ELSE /\ ConfigureFail
                /\ errno_eio' \in ErrnoAfterFailure
    /\ UNCHANGED <<m_max_qp_wr, m_rx_num_wr, m_qp_cap, qp_init_attr_cap, req_cap>>
    /\ UNCHANGED <<lockVars, rlVars, env, m_n_sysvar_rx_num_wr_to_post_recv, m_n_sysvar_tx_num_wr_to_signal,
                   removed, g_b_exit>>
    /\ UNCHANGED <<m_qp, qp_state, m_p_cq_mgr_rx, tx_registered, rx_registered>>
    /\ UNCHANGED <<rxVars, txVars, drainVars, checkVars, trace, ready_pre_state, absent_use>>

\* lines 199-203: init_rx_cq_mgr
Configure_RxCq ==
    /\ op = "configure"
    /\ pc = "cfg_rx_cq"
    /\ \E r \in HandleCqInit(m_rx_num_wr) :
        /\ m_rx_num_wr' = r.num_wr
        /\ cq_attempts' = [cq_attempts EXCEPT !.rx = r.sizes]
        /\ m_p_cq_mgr_rx' = r.cq
        /\ cfg_trace' = Append(cfg_trace, "rx_cq")
        /\ IF r.cq
           THEN /\ pc' = "cfg_qp"
                /\ UNCHANGED <<op, cfg_result, errno_eio>>
           ELSE /\ ConfigureFail
                /\ errno_eio' \in ErrnoAfterFailure
    /\ UNCHANGED <<m_max_qp_wr, m_tx_num_wr, m_qp_cap, qp_init_attr_cap, req_cap>>
    /\ UNCHANGED <<lockVars, rlVars, env, m_n_sysvar_rx_num_wr_to_post_recv, m_n_sysvar_tx_num_wr_to_signal,
                   removed, g_b_exit>>
    /\ UNCHANGED <<m_qp, qp_state, m_p_cq_mgr_tx, tx_registered, rx_registered>>
    /\ UNCHANGED <<rxVars, txVars, drainVars, checkVars, trace, ready_pre_state, absent_use>>

\* lines 229-232: the send work requests the descriptor-buffer budget allows
CalcNumWr(cap) ==
    LET max_wqe_sz == WQE_FIXED_SZ + WQE_SGE_SZ * cap.max_send_sge + cap.max_inline_data
                      + WQE_INLINE_HDR_SZ
                      + (IF env.is_tso THEN env.max_header_sz ELSE WQE_NO_TSO_HDR_SZ)
    IN  (WQEBB_BUDGET * WQEBB_SIZE) \div max_wqe_sz

\* lines 218-237: the capabilities requested of the QP creation
RequestedInitCap(cap) ==
    IF CalcNumWr(cap) < m_tx_num_wr
    THEN [cap EXCEPT !.max_send_wr = CalcNumWr(cap)]
    ELSE cap

\* lines 213-250: the requested capabilities, then prepare_ibv_qp (lines 658-686):
\* xlio_ibv_create_qp and the transition to init
Configure_Qp ==
    /\ op = "configure"
    /\ pc = "cfg_qp"
    /\ m_qp_cap' = [m_qp_cap EXCEPT !.max_send_wr = m_tx_num_wr, !.max_recv_wr = m_rx_num_wr]
    /\ req_cap' = m_qp_cap'
    /\ qp_init_attr_cap' = RequestedInitCap(m_qp_cap')
    /\ \/ \* xlio_ibv_create_qp fails
          /\ cfg_trace' = Append(cfg_trace, "create_qp")
          /\ UNCHANGED <<m_qp, qp_state>>
          /\ errno_eio' \in ErrnoAfterFailure
          /\ ConfigureFail
       \/ \* the QP is created, priv_ibv_modify_qp_from_err_to_init_raw fails
          /\ cfg_trace' = cfg_trace \o <<"create_qp", "to_init">>
          /\ m_qp' = TRUE
          /\ qp_state' = "RESET"
          /\ errno_eio' \in ErrnoAfterFailure
          /\ ConfigureFail
       \/ \* both succeed
          /\ cfg_trace' = cfg_trace \o <<"create_qp", "to_init">>
          /\ m_qp' = TRUE
          /\ qp_state' = "INIT"
          /\ pc' = "cfg_query"
          /\ UNCHANGED <<op, cfg_result, errno_eio>>
    /\ UNCHANGED <<m_max_qp_wr, m_rx_num_wr, m_tx_num_wr, cq_attempts>>
    /\ UNCHANGED <<lockVars, rlVars, env, m_n_sysvar_rx_num_wr_to_post_recv, m_n_sysvar_tx_num_wr_to_signal,
                   removed, g_b_exit>>
    /\ UNCHANGED <<m_p_cq_mgr_tx, m_p_cq_mgr_rx, tx_registered, rx_registered>>
    /\ UNCHANGED <<rxVars, txVars, drainVars, checkVars, trace, ready_pre_state, absent_use>>

\* faulty variant: the capabilities ibv_query_qp reports are stored as they are
ClampToActual_TakeActual(cap, actual) == [f \in CapFields |-> actual[f]]

\* lines 270-274: every field clamped to what ibv_query_qp reports
ClampToActual(cap, actual) ==
    [f \in CapFields |-> Min(actual[f], cap[f])]

\* lines 260-274: ibv_query_qp and the clamp
Configure_Query ==
    /\ op = "configure"
    /\ pc = "cfg_query"
    /\ cfg_trace' = Append(cfg_trace, "query_qp")
    /\ \/ \* ibv_query_qp fails
          /\ errno_eio' \in ErrnoAfterFailure
          /\ ConfigureFail
          /\ UNCHANGED m_qp_cap
       \/ /\ m_qp_cap' = ClampToActual(m_qp_cap, env.granted)
          /\ pc' = "cfg_link"
          /\ UNCHANGED <<op, cfg_result, errno_eio>>
    /\ UNCHANGED <<m_max_qp_wr, m_rx_num_wr, m_tx_num_wr, qp_init_attr_cap, req_cap, cq_attempts>>
    /\ UNCHANGED <<lockVars, rlVars, env, m_n_sysvar_rx_num_wr_to_post_recv, m_n_sysvar_tx_num_wr_to_signal,
                   removed, g_b_exit>>
    /\ UNCHANGED <<hwVars, rxVars, txVars, drainVars, checkVars, trace, ready_pre_state, absent_use>>

\* faulty variant: the last slot is linked back to the first
LinkedArray_Ring(arr, b) ==
    [i \in 0..(b - 1) |->
        [wr_id |-> arr[i].wr_id, next |-> IF i < b - 1 THEN i + 1 ELSE 0, num_sge |-> 1]]

\* lines 308-314: the receive batch array linked into one chain
LinkedArray(arr, b) ==
    [i \in 0..(b - 1) |->
        [wr_id |-> arr[i].wr_id, next |-> IF i < b - 1 THEN i + 1 ELSE NULL, num_sge |-> 1]]

\* lines 308-318: the chain is linked, the batch index reset, configure returns 0
Configure_Link ==
    /\ op = "configure"
    /\ pc = "cfg_link"
    /\ cfg_trace' = Append(cfg_trace, "link_chain")
    /\ m_ibv_rx_wr_array' = LinkedArray(m_ibv_rx_wr_array, m_n_sysvar_rx_num_wr_to_post_recv)
    /\ m_curr_rx_wr' = 0
    /\ cfg_result' = "ok"
    /\ op' = "idle"
    /\ pc' = "idle"
    /\ UNCHANGED <<m_max_qp_wr, m_rx_num_wr, m_tx_num_wr, m_qp_cap, qp_init_attr_cap, req_cap,
                   cq_attempts>>
    /\ UNCHANGED <<m_last_posted_rx_wr_id, buf_loc, rq, rx_posted, hw_posts>>
    /\ UNCHANGED <<lockVars, rlVars, envVars, hwVars, txVars, drainVars, checkVars, trace, ready_pre_state, absent_use>>

configure ==
    \/ Configure_Clamp
    \/ Configure_TxCq
    \/ Configure_RxCq
    \/ Configure_Qp
    \/ Configure_Query
    \/ Configure_Link

(***************************************************************************)
(* Outcomes shared by the operations.                                      *)
(***************************************************************************)
\* the process ends: qp_logpanic, or a throw that nothing catches
Terminate ==
    /\ op' = "dead"
    /\ pc' = "terminated"

\* a call through an absent handle (a null m_qp, m_p_cq_mgr_tx or m_p_cq_mgr_rx) is
\* undefined: the process crashes, or the call returns having done nothing and the
\* operation goes on at pc next
\* (at "idle" it has returned)
UseAbsent(res, next) ==
    /\ absent_use' = absent_use \cup {res}
    /\ \/ /\ op' = "dead"
          /\ pc' = "crashed"
       \/ /\ op' = IF next = "idle" THEN "idle" ELSE op
          /\ pc' = next

\* the manager can be called: no operation in progress and the process alive
Idle == op = "idle"

\* dataplane calls come from the ring, which keeps only a manager whose configure succeeded
Configured == cfg_result = "ok"

(***************************************************************************)
(* Receive buffer posting                                                  *)
(***************************************************************************)
\* the chain ibv_post_recv walks from slot i: the wr_id of each descriptor up to next = NULL
RECURSIVE ChainFrom(_, _, _)
ChainFrom(arr, i, fuel) ==
    IF i = NULL \/ i = UNINIT \/ fuel = 0
    THEN <<>>
    ELSE <<arr[i].wr_id>> \o ChainFrom(arr, arr[i].next, fuel - 1)

\* the chain posted by line 509: from &m_ibv_rx_wr_array[0]
PostedChain(arr) == ChainFrom(arr, 0, m_n_sysvar_rx_num_wr_to_post_recv)

\* the set of the elements of a sequence
Range(q) == {q[i] : i \in 1..Len(q)}

\* the first k elements of a sequence
Prefix(q, k) == SubSeq(q, 1, k)

\* faulty variant: the post is triggered one slot early
IsLastSlot_Early(curr) == curr >= m_n_sysvar_rx_num_wr_to_post_recv - 2

\* line 500: the slot whose filling triggers the hardware post
IsLastSlot(curr) == curr = m_n_sysvar_rx_num_wr_to_post_recv - 1

\* faulty variant: the chain is cut at the refused slot
FixBrokenList_CutsChain(arr, n_pos_bad_rx_wr) ==
    [arr EXCEPT ![n_pos_bad_rx_wr].next = NULL]

\* lines 521-524: the chain pointer repaired at the slot ibv_post_recv rejected
FixBrokenList(arr, n_pos_bad_rx_wr) ==
    IF n_pos_bad_rx_wr /= m_n_sysvar_rx_num_wr_to_post_recv - 1
    THEN [arr EXCEPT ![n_pos_bad_rx_wr].next = n_pos_bad_rx_wr + 1]
    ELSE arr

\* lines 486-532: post_recv_buffer(p_mem_buf_desc) for descriptor d.
\* (The prefetch back-pointers of lines 488-493 and 504-505 live in the descriptors,
\* not in the manager's batch, and are left out.)
post_recv_buffer(d) ==
    /\ Idle
    /\ Configured
    /\ buf_loc[d] = "free"
    /\ LET arr == [m_ibv_rx_wr_array EXCEPT ![m_curr_rx_wr].wr_id = d]
           chain == PostedChain(arr)
       IN  /\ rx_posted' = Append(rx_posted, d)
           /\ IF IsLastSlot(m_curr_rx_wr)
              THEN /\ m_last_posted_rx_wr_id' = d
                   /\ m_curr_rx_wr' = 0
                   /\ \/ \* ibv_post_recv accepts the whole chain
                         /\ m_ibv_rx_wr_array' = arr
                         /\ hw_posts' = Append(hw_posts, chain)
                         /\ rq' = rq \o chain
                         /\ buf_loc' = [b \in Bufs |->
                                IF b \in Range(chain) THEN "hw"
                                ELSE IF b = d THEN "batch" ELSE buf_loc[b]]
                         /\ UNCHANGED <<op, pc, errno_eio>>
                      \/ \* ibv_post_recv rejects the chain at offset k: the k descriptors
                         \* before it were accepted; the failure is re-raised
                         \E k \in 0..(Len(chain) - 1) :
                            /\ m_ibv_rx_wr_array' = FixBrokenList(arr, k)
                            /\ rq' = rq \o Prefix(chain, k)
                            /\ buf_loc' = [b \in Bufs |->
                                   IF b \in Range(Prefix(chain, k)) THEN "hw"
                                   ELSE IF b = d THEN "batch" ELSE buf_loc[b]]
                            /\ errno_eio' \in ErrnoAfterFailure
                            /\ Terminate
                            /\ UNCHANGED hw_posts
              ELSE /\ m_curr_rx_wr' = m_curr_rx_wr + 1
                   /\ m_ibv_rx_wr_array' = arr
                   /\ buf_loc' = [buf_loc EXCEPT ![d] = "batch"]
                   /\ UNCHANGED <<m_last_posted_rx_wr_id, rq, hw_posts, op, pc, errno_eio>>
    /\ UNCHANGED <<lockVars, rlVars, env, m_n_sysvar_rx_num_wr_to_post_recv, m_n_sysvar_tx_num_wr_to_signal,
                   removed, g_b_exit>>
    /\ UNCHANGED <<cfgVars, hwVars, txVars, drainVars, checkVars, trace, ready_pre_state, absent_use>>

PostRecvBuffer == \E d \in Bufs : post_recv_buffer(d)

(***************************************************************************)
(* Receive posting by two callers                                          *)
(*                                                                         *)
(* post_recv_buffer is called by the thread that owns the ring and, through *)
(* post_recv_buffers, by the completion-queue manager.  Here each call is   *)
(* followed statement by statement, so that the calls of the two callers    *)
(* interleave wherever the lock lets them.                                  *)
(***************************************************************************)
\* cq_mgr's lock, which both callers take before they call (line 537)
LockFree == lock = "free"

\* the descriptors no caller has passed yet
FreeBufs == {b \in Bufs : buf_loc[b] = "free"}

\* the queues the completion-queue manager may hand over: distinct free descriptors
FreeQueues ==
    {q \in UNION {[1..n -> FreeBufs] : n \in 1..MaxQueue} :
        \A i, j \in 1..Len(q) : q[i] = q[j] => i = j}

\* where a caller goes on when its post_recv_buffer returns: the owner is done, the
\* loop of post_recv_buffers (line 538) checks its count again
AfterPost(t) == IF t = "owner" THEN "unlock" ELSE "loop"

\* the owner takes the lock and calls post_recv_buffer(d)
Owner_Call ==
    /\ Idle
    /\ Configured
    /\ thr["owner"].pc = "out"
    /\ LockFree
    /\ lock' = "owner"
    /\ \E d \in FreeBufs : thr' = [thr EXCEPT !["owner"] = [pc |-> "write", d |-> d, count |-> 0]]
    /\ UNCHANGED <<p_buffers, pops>>
    /\ UNCHANGED <<envVars, cfgVars, hwVars, rxVars, txVars, drainVars, checkVars, ctlVars, rlVars>>

\* the completion-queue manager takes its lock and calls post_recv_buffers(q, count)
Cq_Call ==
    /\ Idle
    /\ Configured
    /\ thr["cq"].pc = "out"
    /\ LockFree
    /\ lock' = "cq"
    /\ \E q \in FreeQueues, count \in 0..MaxQueue :
        /\ count <= Len(q)
        /\ p_buffers' = q
        /\ pops' = [queue |-> q, count |-> count, popped |-> <<>>]
        /\ thr' = [thr EXCEPT !["cq"] = [pc |-> "loop", d |-> 0, count |-> count]]
    /\ UNCHANGED <<envVars, cfgVars, hwVars, rxVars, txVars, drainVars, checkVars, ctlVars, rlVars>>

\* faulty variant: the loop stops one descriptor early
PostRecvBuffersGoesOn_StopsEarly(count) == count > 1

\* line 538: while (count--)
PostRecvBuffersGoesOn(count) == count /= 0

\* lines 538-540: one check of the loop of post_recv_buffers; when it goes on, the front
\* of the queue is popped and passed to post_recv_buffer
Cq_Loop ==
    /\ Idle
    /\ thr["cq"].pc = "loop"
    /\ IF PostRecvBuffersGoesOn(thr["cq"].count)
       THEN /\ thr' = [thr EXCEPT !["cq"] =
                        [pc |-> "write", d |-> Head(p_buffers), count |-> thr["cq"].count - 1]]
            /\ p_buffers' = Tail(p_buffers)
            /\ pops' = [pops EXCEPT !.popped = Append(pops.popped, Head(p_buffers))]
       ELSE /\ thr' = [thr EXCEPT !["cq"].pc = "unlock"]
            /\ UNCHANGED <<p_buffers, pops>>
    /\ UNCHANGED lock
    /\ UNCHANGED <<envVars, cfgVars, hwVars, rxVars, txVars, drainVars, checkVars, ctlVars, rlVars>>

\* lines 495-498: the descriptor is written into the slot at the batch index
Post_Write(t) ==
    /\ Idle
    /\ thr[t].pc = "write"
    /\ m_ibv_rx_wr_array' = [m_ibv_rx_wr_array EXCEPT ![m_curr_rx_wr].wr_id = thr[t].d]
    /\ rx_posted' = Append(rx_posted, thr[t].d)
    /\ buf_loc' = [buf_loc EXCEPT ![thr[t].d] = "batch"]
    /\ thr' = [thr EXCEPT ![t].pc = "test"]
    /\ UNCHANGED <<m_curr_rx_wr, m_last_posted_rx_wr_id, rq, hw_posts>>
    /\ UNCHANGED <<lock, p_buffers, pops>>
    /\ UNCHANGED <<envVars, cfgVars, hwVars, txVars, drainVars, checkVars, ctlVars, rlVars>>

\* lines 500-507 and 529-531: the last slot resets the index and goes on to the
\* hardware post, any other slot advances the index and returns
Post_Test(t) ==
    /\ Idle
    /\ thr[t].pc = "test"
    /\ IF IsLastSlot(m_curr_rx_wr)
       THEN /\ m_last_posted_rx_wr_id' = thr[t].d
            /\ m_curr_rx_wr' = 0
            /\ thr' = [thr EXCEPT ![t].pc = "hw"]
       ELSE /\ m_curr_rx_wr' = m_curr_rx_wr + 1
            /\ thr' = [thr EXCEPT ![t].pc = AfterPost(t)]
            /\ UNCHANGED m_last_posted_rx_wr_id
    /\ UNCHANGED <<m_ibv_rx_wr_array, buf_loc, rq, rx_posted, hw_posts>>
    /\ UNCHANGED <<lock, p_buffers, pops>>
    /\ UNCHANGED <<envVars, cfgVars, hwVars, txVars, drainVars, checkVars, ctlVars, rlVars>>

\* lines 508-528: ibv_post_recv of the chain, accepted whole or refused at offset k
Post_Hw(t) ==
    /\ Idle
    /\ thr[t].pc = "hw"
    /\ LET chain == PostedChain(m_ibv_rx_wr_array)
       IN  \/ /\ hw_posts' = Append(hw_posts, chain)
              /\ rq' = rq \o chain
              /\ buf_loc' = [b \in Bufs |-> IF b \in Range(chain) THEN "hw" ELSE buf_loc[b]]
              /\ thr' = [thr EXCEPT ![t].pc = AfterPost(t)]
              /\ UNCHANGED <<m_ibv_rx_wr_array, op, pc, errno_eio>>
           \/ \E k \in 0..(Len(chain) - 1) :
                /\ m_ibv_rx_wr_array' = FixBrokenList(m_ibv_rx_wr_array, k)
                /\ rq' = rq \o Prefix(chain, k)
                /\ buf_loc' = [b \in Bufs |->
                       IF b \in Range(Prefix(chain, k)) THEN "hw" ELSE buf_loc[b]]
                /\ errno_eio' \in ErrnoAfterFailure
                /\ Terminate
                /\ UNCHANGED <<hw_posts, thr>>
    /\ UNCHANGED <<m_curr_rx_wr, m_last_posted_rx_wr_id, rx_posted>>
    /\ UNCHANGED <<lock, p_buffers, pops>>
    /\ UNCHANGED <<env, m_n_sysvar_rx_num_wr_to_post_recv, m_n_sysvar_tx_num_wr_to_signal,
                   removed, g_b_exit>>
    /\ UNCHANGED <<cfgVars, hwVars, txVars, drainVars, checkVars, trace, ready_pre_state,
                   absent_use, rlVars>>

\* the call has returned; the caller gives the lock back
Unlock(t) ==
    /\ Idle
    /\ thr[t].pc = "unlock"
    /\ lock' = "free"
    /\ thr' = [thr EXCEPT ![t] = NoCall]
    /\ p_buffers' = IF t = "cq" THEN <<>> ELSE p_buffers
    /\ pops' = IF t = "cq" THEN NoPops ELSE pops
    /\ UNCHANGED <<envVars, cfgVars, hwVars, rxVars, txVars, drainVars, checkVars, ctlVars, rlVars>>

PostWrite == \E t \in Threads : Post_Write(t)

PostTest == \E t \in Threads : Post_Test(t)

PostHw == \E t \in Threads : Post_Hw(t)

GiveLockBack == \E t \in Threads : Unlock(t)

(***************************************************************************)
(* Send path                                                               *)
(***************************************************************************)
\* qp_mgr.h: the last send closed the unsignaled list
is_signal_requested_for_last_wqe ==
    m_n_unsignaled_count = m_n_sysvar_tx_num_wr_to_signal - 1

\* qp_mgr.h: the counter value that closes the unsignaled list
set_unsignaled_count == m_n_sysvar_tx_num_wr_to_signal - 1

\* lines 552-555: the signal flag of the request as submitted
SubmittedSignal(flag_in, request_comp) == flag_in \/ request_comp

\* the send flags a request can carry (a flag word is the set of its flags)
SendFlags == {"SIGNALED", "INLINE"}

\* faulty variant: the signal flag is cleared only after a post that succeeded
send_to_wire_KeepsFlagOnFailure(send_flags, request_comp, post_ok) ==
    LET submitted == IF request_comp THEN send_flags \cup {"SIGNALED"} ELSE send_flags
    IN  [submitted |-> submitted,
         send_flags |-> IF post_ok THEN submitted \ {"SIGNALED"} ELSE submitted,
         ret |-> IF post_ok THEN 0 ELSE -1]

\* lines 543-579: send_to_wire on a request carrying send_flags: the flags as submitted
\* to xlio_ibv_post_send, the flags of the request on return, and the result
send_to_wire(send_flags, request_comp, post_ok) ==
    LET submitted == IF request_comp THEN send_flags \cup {"SIGNALED"} ELSE send_flags
    IN  [submitted |-> submitted,
         send_flags |-> submitted \ {"SIGNALED"},
         ret |-> IF post_ok THEN 0 ELSE -1]

\* line 614: completion is requested for a zero-copy buffer
RequestComp(zcopy) == zcopy

\* line 623: a Tx poll pass follows the submission
PollAfterSend(request_comp) == request_comp \/ is_signal_requested_for_last_wqe

\* lines 600-635: send() of a request whose buffer is zero-copy or not and which carries
\* send_flags; post_ok is the result of xlio_ibv_post_send and poll_ok that of the Tx
\* poll pass
send(zcopy, send_flags, post_ok, poll_ok) ==
    /\ Idle
    /\ Configured
    /\ n_sends < MaxSends
    /\ LET request_comp == RequestComp(zcopy)
           wire == send_to_wire(send_flags, request_comp, post_ok)
           signaled == SubmittedSignal("SIGNALED" \in send_flags, request_comp)
           polled == wire.ret = 0 /\ PollAfterSend(request_comp)
       IN  /\ last_send' = [kind |-> "send", zcopy |-> zcopy, flags_in |-> send_flags,
                            request_comp |-> request_comp, signaled |-> signaled,
                            flags_out |-> wire.send_flags, post_ok |-> post_ok,
                            polled |-> polled, poll_ok |-> poll_ok,
                            ret |-> IF wire.ret /= 0 THEN -1 ELSE 0]
           /\ n_sends' = IF post_ok THEN n_sends + 1 ELSE n_sends
           /\ since_signal' = IF ~post_ok THEN since_signal
                              ELSE IF signaled THEN 0 ELSE since_signal + 1
           /\ IF ~post_ok \/ (polled /\ ~poll_ok)
              THEN errno_eio' \in ErrnoAfterFailure
              ELSE UNCHANGED errno_eio
           /\ (~polled => poll_ok)
    /\ UNCHANGED <<m_n_unsignaled_count, dummy_posts, dummy_path, dummy_qp_state>>
    /\ UNCHANGED <<lockVars, rlVars, env, m_n_sysvar_rx_num_wr_to_post_recv, m_n_sysvar_tx_num_wr_to_signal,
                   removed, g_b_exit>>
    /\ UNCHANGED <<cfgVars, hwVars, rxVars, drainVars, checkVars, ctlVars>>

Send ==
    \E zcopy, post_ok, poll_ok \in BOOLEAN, send_flags \in SUBSET SendFlags :
        send(zcopy, send_flags, post_ok, poll_ok)

\* send() of a request that carries no flag but, possibly, the signal flag
SendSignalFlagOnly ==
    \E zcopy, post_ok, poll_ok \in BOOLEAN, send_flags \in SUBSET {"SIGNALED"} :
        send(zcopy, send_flags, post_ok, poll_ok)

(***************************************************************************)
(* Buffer draining                                                         *)
(***************************************************************************)
\* qp_mgr.h: no descriptor is left in the hardware receive queue
is_rq_empty == rq = <<>>

\* faulty variant: down() deregisters from the Rx collaborator first
RelRxReturn_DelRxFirst == IF op = "up" THEN "rel_tx" ELSE "down_del_rx"

\* where release_rx_buffers returns to: up() goes on to release_tx_buffers, down() to
\* the deregistrations
RelRxReturn == IF op = "up" THEN "rel_tx" ELSE "down_del_tx"

\* faulty variant: up() registers with the Rx collaborator before the ready transition
RelTxReturn_AddRxFirst == IF op = "up" THEN "up_add_rx" ELSE "rel_rx"

\* where release_tx_buffers returns to: up() goes on to the ready transition, down() to
\* release_rx_buffers
RelTxReturn == IF op = "up" THEN "up_ready" ELSE "rel_rx"

\* mem_buf_desc_t::p_desc_owner: the descriptors with an odd identity belong to a ring,
\* the others have no owner
HasOwner(d) == d % 2 = 1

\* faulty variant: every unposted descriptor goes to the global pool
RxReturnDest_AlwaysPool(d) == "pool"

\* lines 375-379: an unposted descriptor goes back to the ring that owns it, one without
\* an owner to the global receive pool
RxReturnDest(d) == IF HasOwner(d) THEN "ring" ELSE "pool"

\* lines 370-380: the loop over the unposted slots, from the one below the batch index
\* down to slot 0; each step hands one slot's descriptor back
RECURSIVE ReturnUnposted(_, _)
ReturnUnposted(arr, curr) ==
    IF curr = 0 THEN <<>>
    ELSE LET d == arr[curr - 1].wr_id
         IN  <<[d |-> d, to |-> RxReturnDest(d)]>> \o ReturnUnposted(arr, curr - 1)

\* lines 365-385: the unposted batch slots go back to their owner; the drain starts
ReleaseRx_Unposted ==
    /\ op \in {"up", "down"}
    /\ pc = "rel_rx"
    /\ trace' = Append(trace, "release_rx")
    /\ m_curr_rx_wr' = 0
    /\ buf_loc' = [b \in Bufs |->
            IF \E i \in 0..(m_curr_rx_wr - 1) : m_ibv_rx_wr_array[i].wr_id = b
            THEN "free" ELSE buf_loc[b]]
    /\ rx_posted' = <<>>
    /\ hw_posts' = <<>>
    /\ last_polled_rx_wr_id' = 0
    /\ rx_passes' = 0
    /\ rx_returned' = ReturnUnposted(m_ibv_rx_wr_array, m_curr_rx_wr)
    /\ rx_check' = NoRxCheck
    /\ tx_check' = NoTxCheck
    /\ pc' = "rel_rx_loop"
    /\ UNCHANGED <<m_last_posted_rx_wr_id, m_ibv_rx_wr_array, rq, tx_passes>>
    /\ UNCHANGED <<lockVars, rlVars, envVars, cfgVars, hwVars, txVars, op, ready_pre_state, absent_use>>

\* faulty variant: the drain goes on although the last polled id is the marker
RxDrainGoesOn_IgnoresId ==
    /\ m_p_cq_mgr_rx
    /\ ~errno_eio
    /\ ~removed
    /\ ~is_rq_empty
    /\ ~g_b_exit

\* faulty variant: the drain goes on although the device was removed
RxDrainGoesOn_IgnoresRemoved ==
    /\ m_p_cq_mgr_rx
    /\ last_polled_rx_wr_id /= m_last_posted_rx_wr_id
    /\ ~errno_eio
    /\ ~is_rq_empty
    /\ ~g_b_exit

\* faulty variant: the drain goes on during a shutdown
RxDrainGoesOn_IgnoresShutdown ==
    /\ m_p_cq_mgr_rx
    /\ last_polled_rx_wr_id /= m_last_posted_rx_wr_id
    /\ ~errno_eio
    /\ ~removed
    /\ ~is_rq_empty

\* lines 386-387: the drain goes on
RxDrainGoesOn ==
    /\ m_p_cq_mgr_rx
    /\ last_polled_rx_wr_id /= m_last_posted_rx_wr_id
    /\ ~errno_eio
    /\ ~removed
    /\ ~is_rq_empty
    /\ ~g_b_exit

\* lines 386-387: what one evaluation of the loop condition finds, and what follows it
RxCheck(kind) ==
    [kind |-> kind, cq |-> m_p_cq_mgr_rx,
     id_differs |-> last_polled_rx_wr_id /= m_last_posted_rx_wr_id,
     eio |-> errno_eio, removed |-> removed, rq_empty |-> is_rq_empty, g_b_exit |-> g_b_exit]

\* lines 386-405: one check of the loop and, when it passes, one drain pass:
\* drain_and_proccess polls the n oldest completions and reports the last one's id;
\* a pass that yields nothing queries the device events, which may find the device removed
ReleaseRx_Pass ==
    /\ op \in {"up", "down"}
    /\ pc = "rel_rx_loop"
    /\ RxDrainGoesOn
    /\ \E n \in 0..Len(rq) :
        /\ rq' = SubSeq(rq, n + 1, Len(rq))
        /\ buf_loc' = [b \in Bufs |-> IF b \in Range(Prefix(rq, n)) THEN "free" ELSE buf_loc[b]]
        /\ last_polled_rx_wr_id' = IF n > 0 THEN rq[n] ELSE last_polled_rx_wr_id
        /\ IF n = 0
           THEN /\ removed' \in {removed, TRUE}
                /\ errno_eio' \in {errno_eio, TRUE}
           ELSE UNCHANGED <<removed, errno_eio>>
    /\ rx_passes' = Min(rx_passes + 1, MaxPasses)
    /\ rx_check' = RxCheck("pass")
    /\ rx_returned' = <<>>
    /\ UNCHANGED <<m_curr_rx_wr, m_last_posted_rx_wr_id, m_ibv_rx_wr_array, rx_posted, hw_posts,
                   tx_passes, tx_check>>
    /\ UNCHANGED <<lockVars, rlVars, env, m_n_sysvar_rx_num_wr_to_post_recv, m_n_sysvar_tx_num_wr_to_signal,
                   g_b_exit>>
    /\ UNCHANGED <<cfgVars, hwVars, txVars, ctlVars>>

\* lines 386-387, 406-409: the loop check fails; the marker is cleared and the call returns
ReleaseRx_Exit ==
    /\ op \in {"up", "down"}
    /\ pc = "rel_rx_loop"
    /\ ~RxDrainGoesOn
    /\ m_last_posted_rx_wr_id' = 0
    /\ trace' = Append(trace, "release_rx_ret")
    /\ last_polled_rx_wr_id' = 0
    /\ pc' = RelRxReturn
    /\ rx_check' = RxCheck("exit")
    /\ rx_returned' = <<>>
    /\ UNCHANGED <<m_curr_rx_wr, m_ibv_rx_wr_array, buf_loc, rq, rx_posted, hw_posts>>
    /\ UNCHANGED <<rx_passes, tx_passes, tx_check>>
    /\ UNCHANGED <<lockVars, rlVars, envVars, cfgVars, hwVars, txVars, op, ready_pre_state, absent_use>>

\* lines 411-415: release_tx_buffers is entered
ReleaseTx_Enter ==
    /\ op \in {"up", "down"}
    /\ pc = "rel_tx"
    /\ trace' = Append(trace, "release_tx")
    /\ tx_passes' = 0
    /\ rx_check' = NoRxCheck
    /\ tx_check' = NoTxCheck
    /\ pc' = "rel_tx_loop"
    /\ UNCHANGED <<rx_passes, last_polled_rx_wr_id, rx_returned>>
    /\ UNCHANGED <<lockVars, rlVars, envVars, cfgVars, hwVars, rxVars, txVars, op, ready_pre_state, absent_use>>

\* line 416: the handles the loop needs before it polls
TxDrainCanPoll == m_p_cq_mgr_tx /\ m_qp

\* faulty variant: the loop goes on although the device was removed
TxDrainGoesOn_IgnoresRemoved(ret_positive, eio) == ret_positive /\ ~eio

\* lines 417-418: the loop goes on after a poll that processed ret completions
TxDrainGoesOn(ret_positive, eio) == ret_positive /\ ~eio /\ ~removed

\* lines 416-418: what one evaluation of the loop condition finds after its poll (none
\* when a handle is absent), and what follows it
TxCheck(kind, ret_positive, eio) ==
    [kind |-> kind, ret_positive |-> ret_positive, eio |-> eio, removed |-> removed]

\* lines 416-420: one evaluation of the loop condition: a poll of the Tx completion
\* queue (when the handles are present), then the check of its result, errno and the device
ReleaseTx_Poll ==
    /\ op \in {"up", "down"}
    /\ pc = "rel_tx_loop"
    /\ TxDrainCanPoll
    /\ tx_passes' = Min(tx_passes + 1, MaxPasses)
    /\ \E ret_positive \in BOOLEAN :
        /\ IF ret_positive THEN UNCHANGED errno_eio ELSE errno_eio' \in {errno_eio, TRUE}
        /\ IF TxDrainGoesOn(ret_positive, errno_eio')
           THEN /\ tx_check' = TxCheck("on", ret_positive, errno_eio')
                /\ UNCHANGED <<pc, trace>>
           ELSE /\ tx_check' = TxCheck("stop", ret_positive, errno_eio')
                /\ pc' = RelTxReturn
                /\ trace' = Append(trace, "release_tx_ret")
    /\ UNCHANGED <<rx_passes, last_polled_rx_wr_id, rx_check, rx_returned>>
    /\ UNCHANGED <<lockVars, rlVars, env, m_n_sysvar_rx_num_wr_to_post_recv, m_n_sysvar_tx_num_wr_to_signal,
                   removed, g_b_exit>>
    /\ UNCHANGED <<cfgVars, hwVars, rxVars, txVars, op, ready_pre_state, absent_use>>

\* line 416: a handle is absent, the loop body never runs
ReleaseTx_Skip ==
    /\ op \in {"up", "down"}
    /\ pc = "rel_tx_loop"
    /\ ~TxDrainCanPoll
    /\ pc' = RelTxReturn
    /\ trace' = Append(trace, "release_tx_ret")
    /\ tx_check' = TxCheck("skip", FALSE, errno_eio)
    /\ UNCHANGED <<lockVars, rlVars, envVars, cfgVars, hwVars, rxVars, txVars, drainVars, op, ready_pre_state,
                   absent_use, rx_check, rx_returned>>

release_rx_buffers == ReleaseRx_Unposted \/ ReleaseRx_Pass \/ ReleaseRx_Exit

release_tx_buffers == ReleaseTx_Enter \/ ReleaseTx_Poll \/ ReleaseTx_Skip

(***************************************************************************)
(* QP state transitions (util/utils.cpp drives the verbs; the file decides *)
(* when each is made and what a failure leads to)                          *)
(***************************************************************************)
\* priv_ibv_modify_qp_to_err: the state after the call, by its result
StateAfterToErr(ok) == IF ok THEN "ERR" ELSE qp_state

\* priv_ibv_modify_qp_from_err_to_init_raw succeeded
StateAfterToInit == "INIT"

\* priv_ibv_modify_qp_from_init_to_rts succeeded
StateAfterToRts == "RTS"

\* faulty variant: the to-init transition is skipped for a QP that is past init
NeedsToInit_NotPastInit(state) == state \notin {"INIT", "RTS"}

\* line 642: the to-init transition is made first
NeedsToInit(state) == state /= "INIT"

(***************************************************************************)
(* up                                                                      *)
(***************************************************************************)
\* line 326: m_p_cq_mgr_tx->add_qp_tx(this)
Up_AddQpTx ==
    /\ Idle
    /\ trace' = <<"add_qp_tx">>
    /\ absent_use' = IF m_p_cq_mgr_tx THEN {} ELSE {"cq_mgr_tx"}
    /\ IF m_p_cq_mgr_tx
       THEN /\ tx_registered' = TRUE
            /\ op' = "up"
            /\ pc' = "rel_rx"
       ELSE /\ UNCHANGED tx_registered
            /\ \/ /\ op' = "dead"
                  /\ pc' = "crashed"
               \/ /\ op' = "up"
                  /\ pc' = "rel_rx"
    /\ dummy_posts' = 0
    /\ dummy_path' = FALSE
    /\ dummy_qp_state' = "NONE"
    /\ UNCHANGED <<m_n_unsignaled_count, last_send, n_sends, since_signal>>
    /\ UNCHANGED <<m_qp, qp_state, m_p_cq_mgr_tx, m_p_cq_mgr_rx, rx_registered>>
    /\ UNCHANGED <<lockVars, rlVars, envVars, cfgVars, rxVars, drainVars, checkVars, ready_pre_state>>

\* lines 637-656, called at line 331: modify_qp_to_ready_state.
\* init_ok and rts_ok are the results of the two transitions; a failed one is a panic
modify_qp_to_ready_state(init_ok, rts_ok) ==
    /\ op = "up"
    /\ pc = "up_ready"
    /\ m_qp
    /\ ready_pre_state' = qp_state
    /\ IF NeedsToInit(qp_state)
       THEN IF ~init_ok
            THEN /\ trace' = Append(trace, "to_init")
                 /\ qp_state' \in {qp_state, "RESET"}
                 /\ errno_eio' \in ErrnoAfterFailure
                 /\ Terminate
            ELSE IF ~rts_ok
            THEN /\ trace' = trace \o <<"to_init", "to_rts">>
                 /\ qp_state' = StateAfterToInit
                 /\ errno_eio' \in ErrnoAfterFailure
                 /\ Terminate
            ELSE /\ trace' = trace \o <<"to_init", "to_rts">>
                 /\ qp_state' = StateAfterToRts
                 /\ pc' = "up_add_rx"
                 /\ UNCHANGED <<op, errno_eio>>
       ELSE /\ init_ok
            /\ trace' = Append(trace, "to_rts")
            /\ IF ~rts_ok
               THEN /\ qp_state' = qp_state
                    /\ errno_eio' \in ErrnoAfterFailure
                    /\ Terminate
               ELSE /\ qp_state' = StateAfterToRts
                    /\ pc' = "up_add_rx"
                    /\ UNCHANGED <<op, errno_eio>>
    /\ UNCHANGED <<m_qp, m_p_cq_mgr_tx, m_p_cq_mgr_rx, tx_registered, rx_registered>>
    /\ UNCHANGED <<lockVars, rlVars, env, m_n_sysvar_rx_num_wr_to_post_recv, m_n_sysvar_tx_num_wr_to_signal,
                   removed, g_b_exit>>
    /\ tx_check' = NoTxCheck
    /\ UNCHANGED <<cfgVars, rxVars, txVars, drainVars, absent_use, rx_check, rx_returned>>

\* line 331 with no QP handle: the state query goes through a null pointer
Up_ReadyAbsent ==
    /\ op = "up"
    /\ pc = "up_ready"
    /\ ~m_qp
    /\ trace' = Append(trace, "to_rts")
    /\ UseAbsent("qp", "up_add_rx")
    /\ tx_check' = NoTxCheck
    /\ UNCHANGED <<lockVars, rlVars, envVars, cfgVars, hwVars, rxVars, txVars, drainVars, ready_pre_state,
                   rx_check, rx_returned>>

Up_Ready ==
    \/ \E init_ok, rts_ok \in BOOLEAN : modify_qp_to_ready_state(init_ok, rts_ok)
    \/ Up_ReadyAbsent

\* line 333: m_p_cq_mgr_rx->add_qp_rx(this); up() returns
Up_AddQpRx ==
    /\ op = "up"
    /\ pc = "up_add_rx"
    /\ trace' = Append(trace, "add_qp_rx")
    /\ IF m_p_cq_mgr_rx
       THEN /\ rx_registered' = TRUE
            /\ op' = "idle"
            /\ pc' = "idle"
            /\ UNCHANGED absent_use
       ELSE /\ UNCHANGED rx_registered
            /\ UseAbsent("cq_mgr_rx", "idle")
    /\ rx_passes' = 0
    /\ tx_passes' = 0
    /\ UNCHANGED <<m_qp, qp_state, m_p_cq_mgr_tx, m_p_cq_mgr_rx, tx_registered>>
    /\ rx_check' = NoRxCheck
    /\ tx_check' = NoTxCheck
    /\ UNCHANGED <<lockVars, rlVars, envVars, cfgVars, rxVars, txVars, last_polled_rx_wr_id, ready_pre_state,
                   rx_returned>>

up == Up_AddQpTx \/ Up_Ready \/ Up_AddQpRx

(***************************************************************************)
(* down                                                                    *)
(***************************************************************************)
\* lines 339, 354-363: modify_qp_to_error_state; a failed transition is only logged
Down_ToError ==
    /\ Idle
    /\ trace' = <<"to_error">>
    /\ dummy_posts' = 0
    /\ dummy_path' = FALSE
    /\ dummy_qp_state' = "NONE"
    /\ IF m_qp
       THEN /\ \E ok \in BOOLEAN :
                /\ qp_state' = StateAfterToErr(ok)
                /\ IF ok THEN UNCHANGED errno_eio ELSE errno_eio' \in ErrnoAfterFailure
            /\ absent_use' = {}
            /\ op' = "down"
            /\ pc' = "down_trigger"
       ELSE /\ absent_use' = {"qp"}
            /\ \/ /\ op' = "dead"
                  /\ pc' = "crashed"
               \/ /\ op' = "down"
                  /\ pc' = "down_trigger"
            /\ UNCHANGED <<qp_state, errno_eio>>
    /\ UNCHANGED <<m_qp, m_p_cq_mgr_tx, m_p_cq_mgr_rx, tx_registered, rx_registered>>
    /\ UNCHANGED <<lockVars, rlVars, env, m_n_sysvar_rx_num_wr_to_post_recv, m_n_sysvar_tx_num_wr_to_signal,
                   removed, g_b_exit>>
    /\ ready_pre_state' = "NONE"
    /\ UNCHANGED <<m_n_unsignaled_count, last_send, n_sends, since_signal>>
    /\ UNCHANGED <<cfgVars, rxVars, drainVars, checkVars>>

\* line 436: the dummy-completion branch is taken
NeedsClosingWr == ~is_signal_requested_for_last_wqe

\* lines 342, 424-479: trigger_completion_for_all_sent_packets.
\* have_buf: mem_buf_tx_get returned a buffer; post_ok: the result of the post in send_to_wire
trigger_completion_for_all_sent_packets(have_buf, post_ok) ==
    /\ op = "down"
    /\ pc = "down_trigger"
    /\ trace' = Append(trace, "trigger")
    /\ IF ~NeedsClosingWr
       THEN /\ have_buf /\ post_ok
            /\ pc' = "rel_tx"
            /\ UNCHANGED <<m_n_unsignaled_count, dummy_posts, dummy_path, dummy_qp_state,
                           errno_eio, op, absent_use, last_send>>
       ELSE /\ dummy_path' = TRUE
            /\ IF ~have_buf
               THEN /\ post_ok
                    /\ pc' = "rel_tx"
                    /\ UNCHANGED <<m_n_unsignaled_count, dummy_posts, dummy_qp_state,
                                   errno_eio, op, absent_use, last_send>>
               ELSE /\ m_n_unsignaled_count' = set_unsignaled_count
                    /\ IF m_qp
                       THEN /\ dummy_posts' = IF post_ok THEN dummy_posts + 1 ELSE dummy_posts
                            /\ dummy_qp_state' = IF post_ok THEN qp_state ELSE dummy_qp_state
                            /\ last_send' =
                                   LET wire == send_to_wire({}, TRUE, post_ok)
                                   IN  [kind |-> "dummy", zcopy |-> FALSE, flags_in |-> {},
                                        request_comp |-> TRUE,
                                        signaled |-> "SIGNALED" \in wire.submitted,
                                        flags_out |-> wire.send_flags, post_ok |-> post_ok,
                                        polled |-> FALSE, poll_ok |-> TRUE, ret |-> wire.ret]
                            /\ IF post_ok
                               THEN UNCHANGED errno_eio
                               ELSE errno_eio' \in ErrnoAfterFailure
                            /\ pc' = "rel_tx"
                            /\ UNCHANGED <<op, absent_use>>
                       ELSE /\ post_ok
                            /\ UseAbsent("qp", "rel_tx")
                            /\ UNCHANGED <<dummy_posts, dummy_qp_state, errno_eio, last_send>>
    /\ UNCHANGED <<n_sends, since_signal>>
    /\ UNCHANGED <<lockVars, rlVars, env, m_n_sysvar_rx_num_wr_to_post_recv, m_n_sysvar_tx_num_wr_to_signal,
                   removed, g_b_exit>>
    /\ UNCHANGED <<cfgVars, hwVars, rxVars, drainVars, checkVars, ready_pre_state>>

Down_Trigger ==
    \E have_buf, post_ok \in BOOLEAN : trigger_completion_for_all_sent_packets(have_buf, post_ok)

\* line 350: m_p_cq_mgr_tx->del_qp_tx(this)
Down_DelQpTx ==
    /\ op = "down"
    /\ pc = "down_del_tx"
    /\ trace' = Append(trace, "del_qp_tx")
    /\ IF m_p_cq_mgr_tx
       THEN /\ tx_registered' = FALSE
            /\ pc' = "down_del_rx"
            /\ UNCHANGED <<op, absent_use>>
       ELSE /\ UNCHANGED tx_registered
            /\ UseAbsent("cq_mgr_tx", "down_del_rx")
    /\ UNCHANGED <<m_qp, qp_state, m_p_cq_mgr_tx, m_p_cq_mgr_rx, rx_registered>>
    /\ rx_check' = NoRxCheck
    /\ UNCHANGED <<lockVars, rlVars, envVars, cfgVars, rxVars, txVars, drainVars, ready_pre_state,
                   tx_check, rx_returned>>

\* line 351: m_p_cq_mgr_rx->del_qp_rx(this); down() returns
Down_DelQpRx ==
    /\ op = "down"
    /\ pc = "down_del_rx"
    /\ trace' = Append(trace, "del_qp_rx")
    /\ IF m_p_cq_mgr_rx
       THEN /\ rx_registered' = FALSE
            /\ op' = "idle"
            /\ pc' = "idle"
            /\ UNCHANGED absent_use
       ELSE /\ UNCHANGED rx_registered
            /\ UseAbsent("cq_mgr_rx", "idle")
    /\ rx_passes' = 0
    /\ tx_passes' = 0
    /\ UNCHANGED <<m_qp, qp_state, m_p_cq_mgr_tx, m_p_cq_mgr_rx, tx_registered>>
    /\ rx_check' = NoRxCheck
    /\ tx_check' = NoTxCheck
    /\ UNCHANGED <<lockVars, rlVars, envVars, cfgVars, rxVars, txVars, last_polled_rx_wr_id, ready_pre_state,
                   rx_returned>>

down == Down_ToError \/ Down_Trigger \/ Down_DelQpTx \/ Down_DelQpRx

(***************************************************************************)
(* Rate limit                                                              *)
(***************************************************************************)
\* the bits of the change mask: RL_RATE, RL_BURST_SIZE, RL_PKT_SIZE (a mask is the set
\* of its bits, the bitwise or is the union)
RlBits == {"RL_RATE", "RL_BURST_SIZE", "RL_PKT_SIZE"}

\* faulty variant: the packet size is not compared
is_ratelimit_change_NoPktSize(rate_limit) ==
    (IF m_rate_limit.rate /= rate_limit.rate THEN {"RL_RATE"} ELSE {})
    \cup (IF m_rate_limit.max_burst_sz /= rate_limit.max_burst_sz THEN {"RL_BURST_SIZE"} ELSE {})

\* lines 688-703: is_ratelimit_change(rate_limit), the mask it returns
is_ratelimit_change(rate_limit) ==
    (IF m_rate_limit.rate /= rate_limit.rate THEN {"RL_RATE"} ELSE {})
    \cup (IF m_rate_limit.max_burst_sz /= rate_limit.max_burst_sz THEN {"RL_BURST_SIZE"} ELSE {})
    \cup (IF m_rate_limit.typical_pkt_sz /= rate_limit.typical_pkt_sz THEN {"RL_PKT_SIZE"} ELSE {})

\* faulty variant: only the fields the mask names are stored
StoredAfterModify_MaskedOnly(rate_limit, rl_changes, hw_ret) ==
    IF hw_ret /= 0
    THEN m_rate_limit
    ELSE [rate |-> IF "RL_RATE" \in rl_changes THEN rate_limit.rate ELSE m_rate_limit.rate,
          max_burst_sz |-> IF "RL_BURST_SIZE" \in rl_changes THEN rate_limit.max_burst_sz
                           ELSE m_rate_limit.max_burst_sz,
          typical_pkt_sz |-> IF "RL_PKT_SIZE" \in rl_changes THEN rate_limit.typical_pkt_sz
                             ELSE m_rate_limit.typical_pkt_sz]

\* lines 709-715: m_rate_limit after modify_qp_ratelimit, hw_ret being what
\* priv_ibv_modify_qp_ratelimit returned
StoredAfterModify(rate_limit, rl_changes, hw_ret) ==
    IF hw_ret /= 0 THEN m_rate_limit ELSE rate_limit

\* lines 710-716: the result of modify_qp_ratelimit
ModifyRatelimitResult(hw_ret) == IF hw_ret /= 0 THEN -1 ELSE 0

\* the rate-limit configurations callers pass
RateLimits == {RateLimit(r, b, p) : r \in {10, 20}, b \in {5, 7}, p \in {100, 200}}

\* what priv_ibv_modify_qp_ratelimit returns: 0, or a failure code
HwRets == {0, 1}

\* lines 688-703: a call of is_ratelimit_change
IsRatelimitChange ==
    /\ Idle
    /\ Configured
    /\ \E rate_limit \in RateLimits :
        rl_call' = [fn |-> "is_ratelimit_change", rate_limit |-> rate_limit,
                    rl_changes |-> is_ratelimit_change(rate_limit), hw_ret |-> 0, ret |-> 0,
                    before |-> m_rate_limit]
    /\ UNCHANGED m_rate_limit
    /\ UNCHANGED <<lockVars, envVars, cfgVars, hwVars, rxVars, txVars, drainVars, checkVars, ctlVars>>

\* lines 705-717: a call of modify_qp_ratelimit
ModifyQpRatelimit ==
    /\ Idle
    /\ Configured
    /\ \E rate_limit \in RateLimits, rl_changes \in SUBSET RlBits, hw_ret \in HwRets :
        /\ m_rate_limit' = StoredAfterModify(rate_limit, rl_changes, hw_ret)
        /\ rl_call' = [fn |-> "modify_qp_ratelimit", rate_limit |-> rate_limit,
                       rl_changes |-> rl_changes, hw_ret |-> hw_ret,
                       ret |-> ModifyRatelimitResult(hw_ret), before |-> m_rate_limit]
    /\ UNCHANGED <<lockVars, envVars, cfgVars, hwVars, rxVars, txVars, drainVars, checkVars, ctlVars>>

(***************************************************************************)
(* The world outside the manager                                           *)
(***************************************************************************)
\* the device is hot-unplugged (followed while a drain, the only reader of the flag, runs)
DeviceRemoved ==
    /\ pc \in {"rel_rx_loop", "rel_tx_loop"}
    /\ ~removed
    /\ removed' = TRUE
    /\ UNCHANGED <<lockVars, rlVars, env, m_n_sysvar_rx_num_wr_to_post_recv, m_n_sysvar_tx_num_wr_to_signal,
                   g_b_exit, errno_eio>>
    /\ UNCHANGED <<cfgVars, hwVars, rxVars, txVars, drainVars, checkVars, ctlVars>>

\* the process-wide shutdown flag is raised (followed while a drain runs)
Shutdown ==
    /\ pc \in {"rel_rx_loop", "rel_tx_loop"}
    /\ ~g_b_exit
    /\ g_b_exit' = TRUE
    /\ UNCHANGED <<lockVars, rlVars, env, m_n_sysvar_rx_num_wr_to_post_recv, m_n_sysvar_tx_num_wr_to_signal,
                   removed, errno_eio>>
    /\ UNCHANGED <<cfgVars, hwVars, rxVars, txVars, drainVars, checkVars, ctlVars>>

(***************************************************************************)
(* Specifications                                                          *)
(***************************************************************************)
Cap(sw, rw, ss, rs, inl) ==
    [max_send_wr |-> sw, max_recv_wr |-> rw, max_send_sge |-> ss, max_recv_sge |-> rs,
     max_inline_data |-> inl]

\* one device and one set of system variables for the lifecycle and the dataplane
DefaultEnv ==
    [dev_max_qp_wr |-> 32768, rx_num_wr |-> 256, tx_num_wr |-> 256,
     hyper_mshv |-> FALSE, is_mlx4 |-> FALSE, is_tso |-> FALSE, is_socketxtreme |-> FALSE,
     dev_max_sge |-> 30, tx_max_inline |-> 204, max_header_sz |-> 0,
     granted |-> Cap(256, 256, 4, 1, 204)]

\* the lifecycle: configure, up, down and the drains they call, with the outside world
Lifecycle ==
    \/ configure
    \/ up
    \/ down
    \/ release_rx_buffers
    \/ release_tx_buffers
    \/ DeviceRemoved
    \/ Shutdown

\* The receive side: the lifecycle and post_recv_buffer, for every batch capacity.
\* (send() reads and writes nothing the receive side reads, and the other way round,
\* so each side is followed on its own.)
InitRx == \E b \in 1..MaxBatch : InitWith(DefaultEnv, b, 1)

NextRx == Lifecycle \/ PostRecvBuffer

SpecRx == InitRx /\ [][NextRx]_vars

\* The send side: the lifecycle and send(), for every signalling threshold, with a
\* receive batch of one slot fed one descriptor so that the receive drain has work
InitTx == \E n \in 1..MaxSignalThresh : InitWith(DefaultEnv, 1, n)

PostOneRecvBuffer == post_recv_buffer(1)

NextTx == Lifecycle \/ SendSignalFlagOnly \/ PostOneRecvBuffer

SpecTx == InitTx /\ [][NextTx]_vars


\* configure alone, over devices, system variables and granted capabilities
CfgEnvs ==
    {[dev_max_qp_wr |-> dm, rx_num_wr |-> rx, tx_num_wr |-> tx,
      hyper_mshv |-> hv, is_mlx4 |-> m4, is_tso |-> tso, is_socketxtreme |-> FALSE,
      dev_max_sge |-> 30, tx_max_inline |-> 204, max_header_sz |-> 256,
      granted |-> Cap(gsw, grw, gss, grs, gin)] :
        dm \in {10, 16400, 40000}, rx \in {20, 10000, 50000}, tx \in {64, 9000},
        hv \in BOOLEAN, m4 \in BOOLEAN, tso \in BOOLEAN,
        gsw \in {32, 16384}, grw \in {16, 65536}, gss \in {2, 32}, grs \in {1, 4},
        gin \in {64, 512}}

InitCfg == \E e \in CfgEnvs : InitWith(e, 1, 1)

NextCfg == configure

SpecCfg == InitCfg /\ [][NextCfg]_vars

\* the rate limit of a configured manager: the two calls in any order, with any
\* candidate, any mask and any result of the hardware call
InitRl == InitWith(DefaultEnv, 1, 1)

NextRl == configure \/ IsRatelimitChange \/ ModifyQpRatelimit

SpecRl == InitRl /\ [][NextRl]_vars

\* the teardown of a configured manager that was fed receive descriptors: down() and the
\* drains it calls, for batch capacities that leave one or more slots unposted
InitTeardown == \E b \in 2..MaxTeardownBatch : InitWith(DefaultEnv, b, 1)

NextTeardown == configure \/ PostRecvBuffer \/ down \/ release_rx_buffers \/ release_tx_buffers

SpecTeardown == InitTeardown /\ [][NextTeardown]_vars

\* the receive posting of a configured manager by its two callers, each holding the
\* completion-queue manager's lock around its call
InitLocked == \E b \in 1..MaxBatch : InitWith(DefaultEnv, b, 1)

NextLocked ==
    \/ configure
    \/ Owner_Call
    \/ Cq_Call
    \/ Cq_Loop
    \/ PostWrite
    \/ PostTest
    \/ PostHw
    \/ GiveLockBack

SpecLocked == InitLocked /\ [][NextLocked]_vars

\* send() on a configured manager, for every signalling threshold, every request and
\* every result of the post and of the poll
InitWire == \E n \in 1..MaxSignalThresh : InitWith(DefaultEnv, 1, n)

NextWire == configure \/ Send

SpecWire == InitWire /\ [][NextWire]_vars

(***************************************************************************)
(* Claims                                                                  *)
(***************************************************************************)
IsPrefixOf(p, q) == Len(p) <= Len(q) /\ p = SubSeq(q, 1, Len(p))

Occurs(e, q) == \E i \in 1..Len(q) : q[i] = e

\* the post of a chain was refused: post_recv_buffer did not return
PostRefused == Configured /\ pc = "terminated" /\ m_curr_rx_wr = 0 /\ rx_posted /= <<>>
               /\ Len(hw_posts) * m_n_sysvar_rx_num_wr_to_post_recv < Len(rx_posted)

\* C1: from an empty batch of capacity B, after n successful post_recv_buffer calls
\* exactly n div B hardware posts were issued, the j-th carrying descriptors
\* (j-1)B+1 .. jB of those passed, in that order, and the batch index is n mod B.
C1_BatchedPosting ==
    (Configured /\ ~PostRefused) =>
        LET B == m_n_sysvar_rx_num_wr_to_post_recv
            n == Len(rx_posted)
        IN  /\ Len(hw_posts) = n \div B
            /\ m_curr_rx_wr = n % B
            /\ \A j \in 1..Len(hw_posts) :
                  hw_posts[j] = SubSeq(rx_posted, (j - 1) * B + 1, j * B)

\* a batch of two slots after three posts: one hardware post, one descriptor pending
C1_Witness ==
    /\ m_n_sysvar_rx_num_wr_to_post_recv = 2
    /\ Len(rx_posted) = 3
    /\ Len(hw_posts) = 1
    /\ m_curr_rx_wr = 1

\* C2 as stated: modify_qp_to_ready_state invoked on a QP that a previous invocation
\* left in the ready state does not perform the to-init transition again.
C2_ToInitNotRepeated ==
    (op = "up" /\ pc = "up_add_rx" /\ ready_pre_state = "RTS") => ~Occurs("to_init", trace)

\* C2 amended: an invocation of modify_qp_to_ready_state that returns has performed the
\* to-init transition exactly when the state it queried was not INIT (so also when it
\* was the ready state), and has left the QP in the ready state.
C2_ToInitUnlessInit ==
    (op = "up" /\ pc = "up_add_rx" /\ m_qp) =>
        /\ Occurs("to_init", trace) <=> (ready_pre_state /= "INIT")
        /\ qp_state = "RTS"

\* a second successive invocation: the QP was ready, the to-init transition was repeated
C2_Witness ==
    /\ op = "up"
    /\ pc = "up_add_rx"
    /\ ready_pre_state = "RTS"
    /\ Occurs("to_init", trace)
    /\ qp_state = "RTS"

\* the bound of C3: max(32, floor16(device_max - 1))
C3_Bound == Max(32, (env.dev_max_qp_wr - 1) - ((env.dev_max_qp_wr - 1) % 16))

\* C3 as stated: after configure, a requested Rx count above the device maximum has
\* become max(32, floor16(device_max - 1)), and a requested count that does not exceed
\* that bound is unchanged.
C3_RxCountAboveDeviceMax ==
    cfg_result = "ok" =>
        /\ env.rx_num_wr > env.dev_max_qp_wr => m_rx_num_wr = C3_Bound
        /\ env.rx_num_wr <= C3_Bound => m_rx_num_wr = env.rx_num_wr

\* C3 amended: the clamp of configure sets a requested Rx count above
\* max(32, floor16(device_max - 1)) to that bound and leaves any other requested count
\* unchanged; from then on the count keeps that value, unless the Rx completion-queue
\* creation was retried, which sets it to 8192.
C3_RxCountClamped ==
    cfg_trace /= <<>> =>
        IF Len(cq_attempts.rx) = 2
        THEN m_rx_num_wr = MAX_UPSTREAM_CQ_MSHV_SIZE
        ELSE m_rx_num_wr = (IF env.rx_num_wr > C3_Bound THEN C3_Bound ELSE env.rx_num_wr)

\* configure succeeded with a request above the device maximum clamped to the bound
C3_Witness ==
    /\ cfg_result = "ok"
    /\ env.rx_num_wr > env.dev_max_qp_wr
    /\ m_rx_num_wr = C3_Bound
    /\ m_rx_num_wr < env.rx_num_wr

\* C4: after a successful configure every capability field stored in m_qp_cap equals
\* min(requested, granted), the requested value being the one m_qp_cap held when the QP
\* was requested and the granted one what ibv_query_qp reported: never above either.
C4_ClampedToMin ==
    cfg_result = "ok" =>
        \A f \in CapFields :
            /\ m_qp_cap[f] = Min(req_cap[f], env.granted[f])
            /\ m_qp_cap[f] <= req_cap[f]
            /\ m_qp_cap[f] <= env.granted[f]

\* a successful configure where the device granted less in one field and more in another
C4_Witness ==
    /\ cfg_result = "ok"
    /\ \E f \in CapFields : env.granted[f] < req_cap[f] /\ m_qp_cap[f] = env.granted[f]
    /\ \E f \in CapFields : env.granted[f] > req_cap[f] /\ m_qp_cap[f] = req_cap[f]
    /\ qp_init_attr_cap.max_send_wr < req_cap.max_send_wr

\* C5 as stated: the first send after creation is submitted with a signal, and after a
\* signaled send at most N sends are submitted without one (the (N+1)-th forces it).
C5_SignalAtThreshold ==
    /\ (last_send.kind = "send" /\ last_send.ret = 0 /\ n_sends = 1) => last_send.signaled
    /\ since_signal <= m_n_sysvar_tx_num_wr_to_signal

\* C6 as stated: when down() reaches the forced-completion step after a send was
\* submitted, the dummy-completion branch is entered exactly when that last send was
\* submitted without a signal.
C6_DummyIffLastUnsignaled ==
    [][(op = "down" /\ pc = "down_trigger" /\ last_send.kind /= "none" /\ last_send.ret = 0)
        => (dummy_path' <=> ~last_send.signaled)]_vars

\* C7 as stated: whenever the dummy send of down() was submitted, the QP was in the
\* error state.
C7_DummyOnlyInError ==
    dummy_posts > 0 => dummy_qp_state = "ERR"

\* the steps of up() in order (the to-init transition, made only when needed, aside)
UpSteps ==
    <<"add_qp_tx", "release_rx", "release_rx_ret", "release_tx", "release_tx_ret",
      "to_rts", "add_qp_rx">>

IsUpTrace == trace /= <<>> /\ trace[1] = "add_qp_tx"

UpTraceSteps == SelectSeq(trace, LAMBDA e : e /= "to_init")

\* C8: the steps of up() happen in the order Tx registration, Rx release, Tx release,
\* ready transition, Rx registration: what up() has done so far is always a prefix of
\* that order, the whole of it once up() has returned, and the to-init transition,
\* when made, comes right before the ready transition.
C8_UpOrder ==
    IsUpTrace =>
        /\ IsPrefixOf(UpTraceSteps, UpSteps)
        /\ (op = "idle" => UpTraceSteps = UpSteps)
        /\ \A i \in 1..Len(trace) :
              trace[i] = "to_init" => (i > 1 /\ trace[i - 1] = "release_tx_ret"
                                       /\ (i < Len(trace) => trace[i + 1] = "to_rts"))

\* up() has returned: registered with both collaborators, the QP ready
C8_Witness ==
    /\ op = "idle"
    /\ IsUpTrace
    /\ UpTraceSteps = UpSteps
    /\ tx_registered
    /\ rx_registered
    /\ qp_state = "RTS"

\* the steps of down() in order
DownSteps ==
    <<"to_error", "trigger", "release_tx", "release_tx_ret", "release_rx", "release_rx_ret",
      "del_qp_tx", "del_qp_rx">>

IsDownTrace == trace /= <<>> /\ trace[1] = "to_error"

\* C9: the steps of down() happen in the order error transition, forced completion,
\* Tx drain, Rx drain, Tx deregistration, Rx deregistration: what down() has done so
\* far is always a prefix of that order, and the whole of it once down() has returned.
C9_DownOrder ==
    IsDownTrace =>
        /\ IsPrefixOf(trace, DownSteps)
        /\ (op = "idle" => trace = DownSteps)

\* down() has returned on a configured manager: the QP in error, deregistered from both
C9_Witness ==
    /\ op = "idle"
    /\ Configured
    /\ trace = DownSteps
    /\ qp_state = "ERR"
    /\ ~tx_registered
    /\ ~rx_registered

\* C10 as stated: down() uses no absent resource, whatever configure left absent.
C10_DownUsesNoAbsentResource ==
    IsDownTrace => (absent_use = {} /\ pc /= "crashed")

\* the steps of a configure in which nothing fails
CfgSteps == <<"clamp", "tx_cq", "rx_cq", "create_qp", "to_init", "query_qp", "link_chain">>

\* the steps of configure at which a failure makes it return
CfgFailSteps == {"tx_cq", "rx_cq", "create_qp", "to_init", "query_qp"}

\* C17: configure executes its steps in order and stops at the first that fails: a
\* failed Tx or Rx completion-queue creation, QP creation, to-init transition or
\* capability re-query is the last step executed and the result is failure; the result
\* is success exactly when every step ran, the chain linking last, with both
\* collaborators and the QP present and the QP in init.
C17_FailureStopsConfigure ==
    cfg_trace /= <<>> =>
        /\ IsPrefixOf(cfg_trace, CfgSteps)
        /\ (Occurs("tx_cq", cfg_trace) /\ ~m_p_cq_mgr_tx) =>
              (cfg_result = "fail" /\ cfg_trace = Prefix(CfgSteps, 2) /\ ~m_p_cq_mgr_rx /\ ~m_qp)
        /\ (Occurs("rx_cq", cfg_trace) /\ ~m_p_cq_mgr_rx) =>
              (cfg_result = "fail" /\ cfg_trace = Prefix(CfgSteps, 3) /\ ~m_qp)
        /\ (Occurs("create_qp", cfg_trace) /\ ~m_qp) =>
              (cfg_result = "fail" /\ cfg_trace = Prefix(CfgSteps, 4))
        /\ (Occurs("to_init", cfg_trace) /\ qp_state /= "INIT") =>
              (cfg_result = "fail" /\ cfg_trace = Prefix(CfgSteps, 5))
        /\ cfg_result = "fail" =>
              (op = "idle" /\ cfg_trace[Len(cfg_trace)] \in CfgFailSteps
               /\ m_ibv_rx_wr_array[0].next = UNINIT)
        /\ (op = "idle" /\ cfg_trace /= CfgSteps) => cfg_result = "fail"
        /\ cfg_result = "ok" <=> (op = "idle" /\ cfg_trace = CfgSteps)
        /\ cfg_result = "ok" =>
              (m_p_cq_mgr_tx /\ m_p_cq_mgr_rx /\ m_qp /\ qp_state = "INIT"
               /\ m_ibv_rx_wr_array[0].next = NULL)

\* the capability re-query failed after both queues and the QP were created: configure
\* returned failure without linking the chain
C17_Witness ==
    /\ cfg_result = "fail"
    /\ cfg_trace = Prefix(CfgSteps, 6)
    /\ m_p_cq_mgr_tx
    /\ m_p_cq_mgr_rx
    /\ m_qp
    /\ qp_state = "INIT"
    /\ m_ibv_rx_wr_array[0].next = UNINIT

\* the mask bits that C15 expects: one per field in which a and b differ
RlDiffers(a, b) ==
    {bit \in RlBits :
        \/ bit = "RL_RATE" /\ a.rate /= b.rate
        \/ bit = "RL_BURST_SIZE" /\ a.max_burst_sz /= b.max_burst_sz
        \/ bit = "RL_PKT_SIZE" /\ a.typical_pkt_sz /= b.typical_pkt_sz}

\* C15: is_ratelimit_change returns the mask with exactly the bits of the fields in
\* which the candidate differs from the stored configuration (the empty mask when none
\* does) and leaves the stored configuration as it was; after a successful
\* modify_qp_ratelimit of a candidate, is_ratelimit_change of that candidate is empty.
C15_MaskOfDifferences ==
    /\ rl_call.fn = "is_ratelimit_change" =>
          /\ rl_call.rl_changes = RlDiffers(rl_call.before, rl_call.rate_limit)
          /\ (rl_call.rl_changes = {} <=> rl_call.before = rl_call.rate_limit)
          /\ m_rate_limit = rl_call.before
    /\ (rl_call.fn = "modify_qp_ratelimit" /\ rl_call.ret = 0) =>
          is_ratelimit_change(rl_call.rate_limit) = {}

\* the case of the specification: stored {10, 5, 100}, candidate {10, 7, 100}, the mask
\* names the burst size alone
C15_Witness ==
    /\ rl_call.fn = "is_ratelimit_change"
    /\ rl_call.before = RateLimit(10, 5, 100)
    /\ rl_call.rate_limit = RateLimit(10, 7, 100)
    /\ rl_call.rl_changes = {"RL_BURST_SIZE"}
    /\ m_rate_limit = RateLimit(10, 5, 100)

\* C16: modify_qp_ratelimit returns 0 exactly when the hardware call succeeded, and then
\* the stored configuration equals the candidate in all three fields, whatever the
\* mask; otherwise it returns -1 and the stored configuration is what it was.
C16_StoredWholesaleOrUntouched ==
    rl_call.fn = "modify_qp_ratelimit" =>
        /\ rl_call.ret = 0 <=> rl_call.hw_ret = 0
        /\ rl_call.ret /= 0 => rl_call.ret = -1
        /\ rl_call.hw_ret = 0 =>
              /\ m_rate_limit.rate = rl_call.rate_limit.rate
              /\ m_rate_limit.max_burst_sz = rl_call.rate_limit.max_burst_sz
              /\ m_rate_limit.typical_pkt_sz = rl_call.rate_limit.typical_pkt_sz
        /\ rl_call.hw_ret /= 0 => m_rate_limit = rl_call.before

\* a successful call with an empty mask replaced a different stored configuration
C16_Witness ==
    /\ rl_call.fn = "modify_qp_ratelimit"
    /\ rl_call.hw_ret = 0
    /\ rl_call.rl_changes = {}
    /\ rl_call.before = RateLimit(10, 5, 100)
    /\ m_rate_limit = RateLimit(20, 7, 200)

\* C13: on return from send_to_wire the signal flag of the request is clear, whether
\* completion was requested or not, whether the caller had the flag set or not and
\* whether the post succeeded or failed; the other flags are what they were; and the
\* result is an error exactly when the post failed.
C13_SignalFlagClearOnReturn ==
    last_send.kind /= "none" =>
        /\ "SIGNALED" \notin last_send.flags_out
        /\ last_send.flags_out \ {"SIGNALED"} = last_send.flags_in \ {"SIGNALED"}
        /\ last_send.ret /= 0 <=> ~last_send.post_ok
        /\ (last_send.request_comp \/ "SIGNALED" \in last_send.flags_in) <=> last_send.signaled

\* the post failed on a request submitted with the signal flag requested by send() and
\* another flag set by the caller: the signal flag is clear, the other flag is kept
C13_Witness ==
    /\ last_send.kind = "send"
    /\ last_send.request_comp
    /\ ~last_send.post_ok
    /\ last_send.ret = -1
    /\ last_send.flags_in = {"INLINE"}
    /\ last_send.flags_out = {"INLINE"}

\* C14 as stated: a send() whose submission succeeded made one Tx poll pass when it
\* requested a signal and none when it did not; a send() whose submission failed made
\* none and returned an error; a failing poll pass leaves the result a success.
C14_PollIffSignalRequested ==
    last_send.kind = "send" =>
        /\ (last_send.post_ok /\ last_send.request_comp) => last_send.polled
        /\ (last_send.post_ok /\ ~last_send.request_comp) => ~last_send.polled
        /\ ~last_send.post_ok => (~last_send.polled /\ last_send.ret = -1)
        /\ (last_send.polled /\ ~last_send.poll_ok) => last_send.ret = 0


(***************************************************************************)
(* C19: the drain loop of release_rx_buffers                               *)
(***************************************************************************)
\* the four conditions the drain is said to depend on, as a loop check found them
RxFourHold(c) == c.id_differs /\ ~c.removed /\ ~c.rq_empty /\ ~c.g_b_exit

\* C19 as stated: a drain pass follows a loop check of release_rx_buffers exactly when
\* the last observed id differs from the marker, the device is not removed, the
\* receive queue is not empty and no shutdown is in progress; nothing else ends the drain.
C19_DrainIffFourConditions ==
    rx_check.kind /= "none" => (rx_check.kind = "pass" <=> RxFourHold(rx_check))

\* C19: a drain pass follows a loop check of release_rx_buffers exactly when the Rx
\* completion-queue manager is present, the last observed id differs from the marker,
\* errno is not EIO, the device is not removed, the receive queue is not empty and no
\* shutdown is in progress; the loop is left at the first check where one of these fails.
C19_DrainIffSixConditions ==
    /\ rx_check.kind /= "none" =>
         (rx_check.kind = "pass" <=>
            (rx_check.cq /\ ~rx_check.eio /\ RxFourHold(rx_check)))
    /\ rx_check.kind = "pass" => pc = "rel_rx_loop"
    /\ rx_check.kind = "exit" => pc /= "rel_rx_loop"

\* a loop check that ended the drain although the four conditions held, after a pass
C19_Witness ==
    /\ rx_check.kind = "exit"
    /\ RxFourHold(rx_check)
    /\ rx_check.eio
    /\ rx_passes > 0


(***************************************************************************)
(* C11: release_rx_buffers and a device removed during the drain           *)
(***************************************************************************)
\* release_rx_buffers has just returned
RxReleaseReturned == trace /= <<>> /\ trace[Len(trace)] = "release_rx_ret"

\* C11: once the device is found removed at a loop check of release_rx_buffers, no
\* further drain pass is made, whether or not the last observed id ever matched the
\* marker: that check leaves the loop; and whatever ended the loop, the marker
\* m_last_posted_rx_wr_id is zero when release_rx_buffers returns.
C11_RemovalEndsDrainMarkerCleared ==
    /\ rx_check.kind = "pass" => ~rx_check.removed
    /\ (rx_check.kind /= "none" /\ rx_check.removed) => (rx_check.kind = "exit" /\ RxReleaseReturned)
    /\ RxReleaseReturned => m_last_posted_rx_wr_id = 0

\* the device was removed during a drain that had made a pass; the next check left the
\* loop for that reason alone, the id never having matched
C11_Witness ==
    /\ rx_check.kind = "exit"
    /\ rx_check.removed
    /\ rx_check.cq /\ rx_check.id_differs /\ ~rx_check.eio /\ ~rx_check.rq_empty /\ ~rx_check.g_b_exit
    /\ rx_passes > 0
    /\ RxReleaseReturned
    /\ m_last_posted_rx_wr_id = 0


(***************************************************************************)
(* C18: the polling loop of release_tx_buffers                             *)
(***************************************************************************)
\* a loop check of release_tx_buffers that polled the Tx completion queue
TxPolled == tx_check.kind \in {"on", "stop"}

\* C18 as stated: release_tx_buffers polls again exactly when the pass processed at least
\* one completion and the device is not removed, and stops after the first pass that
\* yields nothing or finds the device removed; it does not poll without the Tx
\* completion-queue manager or the QP.
C18_PollsWhileYieldAndPresent ==
    /\ TxPolled => (tx_check.kind = "on" <=> (tx_check.ret_positive /\ ~tx_check.removed))
    /\ tx_check.kind = "skip" => (tx_passes = 0 /\ ~TxDrainCanPoll)

\* C18: release_tx_buffers polls again exactly when the pass processed at least one
\* completion, errno is not EIO and the device is not removed, and stops after the first
\* pass where one of these fails; it does not poll at all without the Tx
\* completion-queue manager or the QP.
C18_PollsWhileYieldNoEioAndPresent ==
    /\ TxPolled =>
         /\ tx_check.kind = "on" <=>
              (tx_check.ret_positive /\ ~tx_check.eio /\ ~tx_check.removed)
         /\ TxDrainCanPoll
         /\ tx_passes > 0
    /\ tx_check.kind = "on" => pc = "rel_tx_loop"
    /\ tx_check.kind \in {"stop", "skip"} => pc /= "rel_tx_loop"
    /\ tx_check.kind = "skip" => (tx_passes = 0 /\ ~TxDrainCanPoll)

\* a pass processed completions with the device present, and the loop
\* was left because errno was EIO
C18_Witness ==
    /\ tx_check.kind = "stop"
    /\ tx_check.ret_positive /\ ~tx_check.removed /\ tx_check.eio
    /\ tx_passes > 0


(***************************************************************************)
(* C12: the unposted batch slots at release_rx_buffers                     *)
(***************************************************************************)
\* how many times descriptor d was handed back
TimesReturned(q, d) == Cardinality({j \in 1..Len(q) : q[j].d = d})

\* C12: the step of release_rx_buffers that empties the batch hands back the descriptor
\* of every slot below the batch index exactly once, to the ring when the descriptor
\* has an owner and to the global pool when it has none, and nothing else; it leaves
\* the batch index at zero; the descriptors the hardware holds stay where they are.
C12_UnpostedReturnedOnce ==
    [][(pc = "rel_rx" /\ pc' = "rel_rx_loop") =>
         LET n == m_curr_rx_wr
             unposted == {m_ibv_rx_wr_array[i].wr_id : i \in 0..(n - 1)}
         IN  /\ Len(rx_returned') = n
             /\ \A d \in unposted : TimesReturned(rx_returned', d) = 1
             /\ \A j \in 1..Len(rx_returned') :
                  /\ rx_returned'[j].d \in unposted
                  /\ rx_returned'[j].to = IF HasOwner(rx_returned'[j].d) THEN "ring" ELSE "pool"
                  /\ buf_loc[rx_returned'[j].d] = "batch"
                  /\ buf_loc'[rx_returned'[j].d] = "free"
             /\ m_curr_rx_wr' = 0
             /\ rq' = rq
             /\ \A b \in Bufs : buf_loc[b] = "hw" => (buf_loc'[b] = "hw" /\ b \notin unposted)
      ]_vars

\* two unposted slots were handed back, one to the ring and one to the global pool
C12_Witness ==
    /\ pc = "rel_rx_loop"
    /\ Len(rx_returned) = 2
    /\ rx_returned[1].d /= rx_returned[2].d
    /\ {rx_returned[1].to, rx_returned[2].to} = {"ring", "pool"}
    /\ m_curr_rx_wr = 0


(***************************************************************************)
(* C20: a refused post of the receive chain                                *)
(***************************************************************************)
\* the offset at which the chain was refused: the slots before it were accepted
RefusedAt ==
    Cardinality({i \in 0..(m_n_sysvar_rx_num_wr_to_post_recv - 1) :
                    buf_loc[m_ibv_rx_wr_array[i].wr_id] = "hw"})

CqRetryCase(first_size) ==
    env.hyper_mshv /\ env.is_mlx4 /\ first_size > MAX_UPSTREAM_CQ_MSHV_SIZE

\* what C23 says of one queue: attempts the sizes tried, present whether a queue was
\* returned, stored the work-request count the manager holds afterwards
CqAttemptsAsSpecified(attempts, present, stored) ==
    /\ Len(attempts) \in {1, 2}
    /\ Len(attempts) = 2 =>
         /\ CqRetryCase(attempts[1])
         /\ attempts[2] = MAX_UPSTREAM_CQ_MSHV_SIZE
         /\ stored = MAX_UPSTREAM_CQ_MSHV_SIZE
    /\ (Len(attempts) = 1 /\ ~present) => ~CqRetryCase(attempts[1])
    /\ Len(attempts) = 1 => stored = attempts[1]

\* C23: each completion queue of configure is created in one or two attempts; a second
\* attempt is made only on the known hypervisor with the known device model and a first
\* size above 8192, at size 8192 exactly, and only then is the stored work-request count
\* set to 8192; a creation that fails in any other case is not retried, no queue is
\* returned and the stored count is the size that was tried.
C23_CqRetryOnceAtCappedSize ==
    /\ Occurs("tx_cq", cfg_trace) =>
         /\ CqAttemptsAsSpecified(cq_attempts.tx, m_p_cq_mgr_tx, m_tx_num_wr)
         /\ cq_attempts.tx[1] = env.tx_num_wr
    /\ Occurs("rx_cq", cfg_trace) =>
         CqAttemptsAsSpecified(cq_attempts.rx, m_p_cq_mgr_rx, m_rx_num_wr)
    /\ ~Occurs("tx_cq", cfg_trace) => (cq_attempts.tx = <<>> /\ m_tx_num_wr = env.tx_num_wr)
    /\ ~Occurs("rx_cq", cfg_trace) => cq_attempts.rx = <<>>

\* the Tx queue was created by the retry at 8192, and the Rx queue, asked for at a size
\* that does not exceed 8192, failed without a retry
C23_Witness ==
    /\ Len(cq_attempts.tx) = 2
    /\ m_p_cq_mgr_tx
    /\ m_tx_num_wr = MAX_UPSTREAM_CQ_MSHV_SIZE
    /\ env.tx_num_wr > MAX_UPSTREAM_CQ_MSHV_SIZE
    /\ Len(cq_attempts.rx) = 1
    /\ ~m_p_cq_mgr_rx
    /\ cfg_result = "fail"


(***************************************************************************)
(* C21: the shape of the receive batch array                               *)
(***************************************************************************)
\* C21: once configure has succeeded, whatever posts (accepted or refused) and releases
\* follow, every slot of the receive batch array but the last points to the next slot,
\* the last points to nothing, every slot has one scatter-gather entry, and the batch
\* index is below the capacity.
C21_BatchArrayIsOneChain ==
    Configured =>
        LET B == m_n_sysvar_rx_num_wr_to_post_recv
        IN  /\ DOMAIN m_ibv_rx_wr_array = 0..(B - 1)
            /\ \A i \in 0..(B - 2) : m_ibv_rx_wr_array[i].next = i + 1
            /\ m_ibv_rx_wr_array[B - 1].next = NULL
            /\ \A i \in 0..(B - 1) : m_ibv_rx_wr_array[i].num_sge = 1
            /\ m_curr_rx_wr \in 0..(B - 1)

\* after an up() that released the receive buffers, the post of a chain of two was
\* refused at its first slot
C21_Witness ==
    /\ PostRefused
    /\ m_n_sysvar_rx_num_wr_to_post_recv = 2
    /\ RefusedAt = 0
    /\ Occurs("release_rx_ret", trace)
    /\ m_ibv_rx_wr_array[0].next = 1


(***************************************************************************)
(* C24: release_rx_buffers called again                                    *)
(***************************************************************************)
\* release_rx_buffers runs in the state a previous call left, nothing posted since,
\* and has handed nothing back
RxReleaseRepeated ==
    /\ op \in {"up", "down"}
    /\ pc \in {"rel_rx", "rel_rx_loop"}
    /\ m_curr_rx_wr = 0
    /\ m_last_posted_rx_wr_id = 0
    /\ rx_posted = <<>>
    /\ rx_returned = <<>>

\* C24: when release_rx_buffers has returned, the batch index and the marker are zero;
\* a call made in that state hands back no descriptor, makes no drain pass and changes
\* nothing of the manager's state.
C24_ReleaseRxIdempotent ==
    /\ [](RxReleaseReturned => (m_curr_rx_wr = 0 /\ m_last_posted_rx_wr_id = 0))
    /\ [][RxReleaseRepeated =>
            /\ rx_returned' = <<>>
            /\ rx_check'.kind /= "pass"
            /\ rx_passes' = 0
            /\ last_polled_rx_wr_id' = 0
            /\ UNCHANGED <<rxVars, hwVars, cfgVars, txVars, rlVars, errno_eio>>]_vars

\* up() after a release that left descriptors in the receive queue: the repeated call
\* has returned without a drain pass, the marker being the last polled id
C24_Witness ==
    /\ RxReleaseReturned
    /\ op = "up"
    /\ rq /= <<>>
    /\ rx_check.kind = "exit"
    /\ ~rx_check.id_differs
    /\ rx_check.cq
    /\ rx_passes = 0
    /\ m_curr_rx_wr = 0


(***************************************************************************)
(* C22: where a descriptor passed to post_recv_buffer is                   *)
(***************************************************************************)
\* the slots below the batch index that hold descriptor d
UnpostedSlotsOf(d) == {i \in 0..(m_curr_rx_wr - 1) : m_ibv_rx_wr_array[i].wr_id = d}

\* the positions of the hardware receive queue that hold descriptor d
RqPositionsOf(d) == {j \in 1..Len(rq) : rq[j] = d}

\* C22 as stated: a descriptor passed to post_recv_buffer and neither completed nor
\* handed back since is in one unposted slot below the batch index or once in the
\* hardware receive queue, never both; a descriptor handed back is in neither, and is
\* handed back once.
C22_EachDescriptorInOnePlace ==
    \A d \in Bufs :
        /\ buf_loc[d] /= "free" =>
             Cardinality(UnpostedSlotsOf(d)) + Cardinality(RqPositionsOf(d)) = 1
        /\ buf_loc[d] = "batch" <=> UnpostedSlotsOf(d) /= {}
        /\ buf_loc[d] = "hw" <=> RqPositionsOf(d) /= {}
        /\ TimesReturned(rx_returned, d) <= 1
        /\ TimesReturned(rx_returned, d) = 1 => buf_loc[d] = "free"

\* how far C22 goes: it holds as long as no post was refused; a refused post leaves the
\* descriptors the hardware did not accept in slots that are not below the batch
\* index, in none of the places C22 names.
C22_OnePlaceUnlessRefused ==
    IF PostRefused
    THEN \A i \in RefusedAt..(m_n_sysvar_rx_num_wr_to_post_recv - 1) :
            LET d == m_ibv_rx_wr_array[i].wr_id
            IN  buf_loc[d] = "batch" /\ UnpostedSlotsOf(d) = {} /\ RqPositionsOf(d) = {}
    ELSE C22_EachDescriptorInOnePlace


(***************************************************************************)
(* C25: the receive posting by two callers under the lock                  *)
(***************************************************************************)
\* no post_recv_buffer call is between its first and its last statement
NoPostRunning == \A t \in Threads : thr[t].pc \in {"out", "loop", "unlock"}

\* the slots of the batch array that hold descriptor d
SlotsOf(d) ==
    {i \in 0..(m_n_sysvar_rx_num_wr_to_post_recv - 1) : m_ibv_rx_wr_array[i].wr_id = d}

\* C25: with every call of post_recv_buffer and post_recv_buffers made under the
\* completion-queue manager's lock, post_recv_buffers pops the descriptors from the
\* front of its queue in order and, when it returns, has popped exactly count of them;
\* a descriptor written into the batch stays in exactly one slot until it is posted;
\* and between calls the hardware posts number floor(n / B) for n descriptors passed,
\* each carrying B successive descriptors in the order they were passed.
C25_LockedCallersPostInOrder ==
    /\ pops.popped \o p_buffers = pops.queue
    /\ Len(pops.popped) + thr["cq"].count = pops.count
    /\ thr["cq"].pc = "unlock" =>
         /\ pops.popped = Prefix(pops.queue, pops.count)
         /\ p_buffers = SubSeq(pops.queue, pops.count + 1, Len(pops.queue))
    /\ \A d \in Bufs : buf_loc[d] = "batch" => Cardinality(SlotsOf(d)) = 1
    /\ (NoPostRunning /\ ~PostRefused) =>
         LET B == m_n_sysvar_rx_num_wr_to_post_recv
             n == Len(rx_posted)
         IN  /\ Len(hw_posts) = n \div B
             /\ m_curr_rx_wr = n % B
             /\ \A j \in 1..Len(hw_posts) :
                   hw_posts[j] = SubSeq(rx_posted, (j - 1) * B + 1, j * B)

\* post_recv_buffers has popped and posted a queue of two after a post of the owner:
\* three descriptors passed to a batch of two, one hardware post
C25_Witness ==
    /\ thr["cq"].pc = "unlock"
    /\ lock = "cq"
    /\ pops.count = 2
    /\ Len(pops.popped) = 2
    /\ Len(rx_posted) = 3
    /\ rx_posted[1] \notin Range(pops.queue)
    /\ m_n_sysvar_rx_num_wr_to_post_recv = 2
    /\ Len(hw_posts) = 1
    /\ m_curr_rx_wr = 1

====
